---------------------------- MODULE Spec2Model ----------------------------
(***************************************************************************)
(* Terminal trivia game: the countdown timer (src/src/timer.c) and the     *)
(* question round / session loop (src/src/game.c).                         *)
(*                                                                         *)
(* Two lines of execution are modelled: the main thread, as a program      *)
(* counter `pc` with a stack of return labels, and the countdown threads   *)
(* created by pthread_create, each with its own program counter `tpc`.     *)
(* A critical section (the code between pthread_mutex_lock and             *)
(* pthread_mutex_unlock) is two steps: the acquisition of the mutex and    *)
(* the body together with the release.  Every read and write the code      *)
(* makes outside a critical section is a step of its own.                  *)
(*                                                                         *)
(* Standard input is a terminal in canonical mode: a queue of complete     *)
(* lines, each read() delivering one line to the stdio buffer, from which  *)
(* fgets and getchar take their characters.                                *)
(***************************************************************************)
EXTENDS Integers, Sequences, FiniteSets, TLC

(***************************************************************************)
(* Bounds of the model.                                                    *)
(***************************************************************************)
MaxSeconds  == 2   \* time_per_question; largest duration given to the timer
MaxThreads  == 3   \* countdown threads created in one behaviour
MaxPending  == 1   \* lines typed ahead and not yet read
MaxRounds   == 4   \* rounds of a session played without the timer
MaxTimedRounds == 1 \* rounds of a session played with the timer
MaxPlayers  == 2   \* largest num_players explored
MaxCalls    == 4   \* timer API calls made by the free client
MaxTime     == 30  \* largest time_remaining given to game_calculate_score

(***************************************************************************)
(* Program constants.                                                      *)
(***************************************************************************)
MAX_OPTIONS       == 4
MAX_INPUT_LEN     == 256
DIFFICULTY_EASY   == 0
DIFFICULTY_MEDIUM == 1
DIFFICULTY_HARD   == 2
DIFFICULTY_COUNT  == 3
INT_MAX           == 2147483647
INT_MIN           == -INT_MAX - 1

Main    == 0                 \* identity of the main thread
NoOwner == -1                \* the mutex is free
Threads == 1..MaxThreads     \* identities of countdown threads
Uninit  == <<"?">>           \* contents of an uninitialised input buffer

VARIABLES
    \* Timer (timer.h)
    seconds, remaining, running, expired,
    thread,        \* Timer.thread: id of the thread last created, 0 if none
    mutex,         \* owner of Timer.mutex, NoOwner when free
    \* countdown threads
    tpc,           \* program counter of each countdown thread
    nthreads,      \* number of threads created so far
    joined,        \* threads that a pthread_join has returned for
    \* main thread
    pc, stack,     \* current label, return labels of the calls in progress
    arg,           \* argument of the timer call in progress (seconds)
    rv,            \* value returned by the last timer call
    \* standard input
    stdin,         \* lines typed and not yet taken by a read() of the process
    stdio,         \* the part of a line that stdio has read and fgets has not
                   \* yet delivered: <<>> or one piece of text
    eof,
    \* game_ask_question locals
    input, answer, result,
    \* GameState / game_run
    config, question, i, stats, players, current_player, game_active,
    \* observation of the run (not program state)
    access,        \* the last access to remaining/running/expired
    calls,         \* timer API calls made by the free client
    hist           \* facts about the current round / last timer call

timerVars  == <<seconds, remaining, running, expired>>
threadVars == <<tpc, nthreads, joined, thread>>
mainVars   == <<pc, stack, arg, rv>>
ioVars     == <<stdin, stdio, eof>>
askVars    == <<input, answer, result>>
gameVars   == <<config, question, i, stats, players, current_player, game_active>>
vars == <<seconds, remaining, running, expired, thread, mutex, tpc, nthreads,
          joined, pc, stack, arg, rv, stdin, stdio, eof, input, answer, result,
          config, question, i, stats, players, current_player, game_active,
          access, calls, hist>>

(***************************************************************************)
(* utils.c : text helpers.  A string is a sequence of one-character        *)
(* strings.                                                                *)
(***************************************************************************)
isspace(c) == c \in {" ", "\t"}
isdigit(c) == c \in {"0", "1", "2", "3", "4", "5", "6", "7", "8", "9"}

DigitVal(c) ==
    CASE c = "0" -> 0 [] c = "1" -> 1 [] c = "2" -> 2 [] c = "3" -> 3
      [] c = "4" -> 4 [] c = "5" -> 5 [] c = "6" -> 6 [] c = "7" -> 7
      [] c = "8" -> 8 [] c = "9" -> 9 [] OTHER -> 0

RECURSIVE SkipSpace(_)
SkipSpace(s) ==
    IF s # <<>> /\ isspace(Head(s)) THEN SkipSpace(Tail(s)) ELSE s

\* the text up to its last character that is not white space
TrimRight(s) ==
    LET kept == {k \in 1..Len(s) : ~isspace(s[k])}
    IN  IF kept = {} THEN <<>>
        ELSE SubSeq(s, 1, CHOOSE k \in kept : \A j \in kept : j <= k)

\* sanitize_input: drop leading, then trailing white space
sanitize_input(s) == TrimRight(SkipSpace(s))

\* the digits at the front of s, and what follows them
RECURSIVE DigitPrefixLen(_)
DigitPrefixLen(s) ==
    IF s # <<>> /\ isdigit(Head(s)) THEN 1 + DigitPrefixLen(Tail(s)) ELSE 0

RECURSIVE DigitsValue(_, _)
DigitsValue(s, acc) ==
    IF s = <<>> THEN acc ELSE DigitsValue(Tail(s), acc * 10 + DigitVal(Head(s)))

\* strtol(str, &endptr, 10): [num, rest] where rest is the text at endptr
strtol(str) ==
    LET s1   == SkipSpace(str)
        neg  == s1 # <<>> /\ Head(s1) = "-"
        s2   == IF s1 # <<>> /\ Head(s1) \in {"-", "+"} THEN Tail(s1) ELSE s1
        n    == DigitPrefixLen(s2)
        mag  == DigitsValue(SubSeq(s2, 1, n), 0)
    IN  IF n = 0 THEN [num |-> 0, rest |-> str]
        ELSE [num |-> IF neg THEN -mag ELSE mag,
              rest |-> SubSeq(s2, n + 1, Len(s2))]

\* is_valid_integer: [ok, value]; value is meaningful only when ok
is_valid_integer(str) ==
    IF Len(str) = 0 THEN [ok |-> FALSE, value |-> 0]
    ELSE LET r == strtol(str)
         IN  IF r.rest # <<>> \/ r.num < INT_MIN \/ r.num > INT_MAX
             THEN [ok |-> FALSE, value |-> 0]
             ELSE [ok |-> TRUE, value |-> r.num]

\* fgets(buffer, size, stdin) on a line of text: at most size - 1 characters
\* are stored, the new-line included; rest is what stays in the stdio buffer
fgets(line, size) ==
    IF Len(line) < size - 1
    THEN [buffer |-> line, rest |-> <<>>]
    ELSE [buffer |-> SubSeq(line, 1, size - 1),
          rest   |-> <<SubSeq(line, size, Len(line))>>]

\* read_input: fgets, then the new-line at the end of the buffer is removed
read_input(line, size) == fgets(line, size)

(***************************************************************************)
(* Observation helpers.                                                    *)
(***************************************************************************)
\* an access to remaining/running/expired made at `site` by thread `who`;
\* the site is kept for the accesses made without the mutex
Access(site, who) == IF mutex = who THEN [site |-> "locked", held |-> TRUE]
                     ELSE [site |-> site, held |-> FALSE]

LiveThreads == {t \in Threads : tpc[t] \notin {"unborn", "t_done"}}

\* call / return of the main thread
Call(label, ret) == /\ pc' = label
                    /\ stack' = <<ret>> \o stack
Return(val) == /\ pc' = Head(stack)
               /\ stack' = Tail(stack)
               /\ rv' = val

(***************************************************************************)
(* timer.c : timer_thread_func, lines 19-53.                               *)
(***************************************************************************)
\* line 25: pthread_mutex_lock
ThreadEntry(t) ==
    /\ tpc[t] = "t_start"
    /\ mutex = NoOwner
    /\ mutex' = t
    /\ tpc' = [tpc EXCEPT ![t] = "t_init"]
    /\ UNCHANGED <<timerVars, nthreads, joined, thread, mainVars, ioVars,
                   askVars, gameVars, access, calls, hist>>

\* lines 26-29: running = true; expired = false; remaining = seconds; unlock
ThreadInit(t) ==
    /\ tpc[t] = "t_init"
    /\ running' = TRUE
    /\ expired' = FALSE
    /\ remaining' = seconds
    /\ access' = Access("timer_thread_func:26", t)
    /\ mutex' = NoOwner
    /\ tpc' = [tpc EXCEPT ![t] = "t_loop"]
    /\ UNCHANGED <<seconds, nthreads, joined, thread, mainVars, ioVars,
                   askVars, gameVars, calls, hist>>

\* line 32: while (timer->remaining > 0), read without the mutex
ThreadLoop(t) ==
    /\ tpc[t] = "t_loop"
    /\ access' = Access("timer_thread_func:32", t)
    /\ tpc' = [tpc EXCEPT ![t] = IF remaining > 0 THEN "t_sleep" ELSE "t_fin_lock"]
    /\ UNCHANGED <<timerVars, mutex, nthreads, joined, thread, mainVars, ioVars,
                   askVars, gameVars, calls, hist>>

\* lines 33-35: sleep(1); pthread_mutex_lock
ThreadSleepLock(t) ==
    /\ tpc[t] = "t_sleep"
    /\ mutex = NoOwner
    /\ mutex' = t
    /\ tpc' = [tpc EXCEPT ![t] = "t_tick"]
    /\ UNCHANGED <<timerVars, nthreads, joined, thread, mainVars, ioVars,
                   askVars, gameVars, access, calls, hist>>

\* lines 36-41: if (!running) { unlock; break; } remaining--; unlock
ThreadTick(t) ==
    /\ tpc[t] = "t_tick"
    /\ access' = Access("timer_thread_func:36", t)
    /\ IF ~running
       THEN /\ tpc' = [tpc EXCEPT ![t] = "t_fin_lock"]
            /\ UNCHANGED remaining
       ELSE /\ remaining' = remaining - 1
            /\ tpc' = [tpc EXCEPT ![t] = "t_loop"]
    /\ mutex' = NoOwner
    /\ UNCHANGED <<seconds, running, expired, nthreads, joined, thread, mainVars,
                   ioVars, askVars, gameVars, calls, hist>>

\* line 45: pthread_mutex_lock
ThreadFinLock(t) ==
    /\ tpc[t] = "t_fin_lock"
    /\ mutex = NoOwner
    /\ mutex' = t
    /\ tpc' = [tpc EXCEPT ![t] = "t_fin"]
    /\ UNCHANGED <<timerVars, nthreads, joined, thread, mainVars, ioVars,
                   askVars, gameVars, access, calls, hist>>

\* lines 46-52: if (remaining == 0) expired = true; running = false; unlock
ThreadFin(t) ==
    /\ tpc[t] = "t_fin"
    /\ expired' = IF remaining = 0 THEN TRUE ELSE expired
    /\ running' = FALSE
    /\ access' = Access("timer_thread_func:46", t)
    /\ mutex' = NoOwner
    /\ tpc' = [tpc EXCEPT ![t] = "t_done"]
    /\ UNCHANGED <<seconds, remaining, nthreads, joined, thread, mainVars, ioVars,
                   askVars, gameVars, calls, hist>>

(***************************************************************************)
(* timer.c : the calls made by the main thread.                            *)
(***************************************************************************)
\* pthread_mutex_lock at the head of a critical section of the main thread
LockLabels == {"start_lock", "stop_lock", "getrem_lock", "isexp_lock", "reset_lock"}
AfterLock(l) ==
    CASE l = "start_lock"  -> "start_chk"
      [] l = "stop_lock"   -> "stop_set"
      [] l = "getrem_lock" -> "getrem_read"
      [] l = "isexp_lock"  -> "isexp_read"
      [] l = "reset_lock"  -> "reset_set"

\* timer.c lines 81, 101, 116, 128, 145
MainLock ==
    /\ pc \in LockLabels
    /\ mutex = NoOwner
    /\ mutex' = Main
    /\ pc' = AfterLock(pc)
    /\ UNCHANGED <<timerVars, threadVars, stack, arg, rv, ioVars, askVars,
                   gameVars, access, calls, hist>>

\* timer_start lines 82-86: if (running) { unlock; return -1; } unlock
StartCheck ==
    /\ pc = "start_chk"
    /\ access' = Access("timer_start:82", Main)
    /\ mutex' = NoOwner
    /\ IF running
       THEN Return(-1)
       ELSE /\ pc' = "start_create"
            /\ UNCHANGED <<stack, rv>>
    /\ UNCHANGED <<timerVars, threadVars, arg, ioVars, askVars, gameVars,
                   calls, hist>>

\* timer_start lines 89-93: pthread_create; return 0
StartCreate ==
    /\ pc = "start_create"
    /\ nthreads < MaxThreads
    /\ nthreads' = nthreads + 1
    /\ thread' = nthreads + 1
    /\ tpc' = [tpc EXCEPT ![nthreads + 1] = "t_start"]
    /\ Return(0)
    /\ UNCHANGED <<timerVars, mutex, joined, arg, ioVars, askVars, gameVars,
                   access, calls, hist>>

\* timer_stop lines 102-103: running = false; unlock
StopSet ==
    /\ pc = "stop_set"
    /\ running' = FALSE
    /\ access' = Access("timer_stop:102", Main)
    /\ mutex' = NoOwner
    /\ pc' = "stop_join"
    /\ hist' = [hist EXCEPT !.stopAt = IF LiveThreads # {} THEN remaining ELSE -1]
    /\ UNCHANGED <<seconds, remaining, expired, threadVars, stack, arg, rv,
                   ioVars, askVars, gameVars, calls>>

\* (a timer_stop that returns without waiting for the thread to end)
StopJoin_NoWait ==
    /\ pc = "stop_join"
    /\ thread \in Threads
    /\ thread \notin joined
    /\ joined' = joined \cup {thread}
    /\ hist' = [hist EXCEPT !.stopped = (Head(stack) # "reset_lock")]
    /\ Return(0)
    /\ UNCHANGED <<timerVars, mutex, tpc, nthreads, thread, arg, ioVars,
                   askVars, gameVars, access, calls>>

\* timer_stop lines 106-108: pthread_join(timer->thread); return 0
StopJoin ==
    /\ pc = "stop_join"
    /\ thread \in Threads
    /\ thread \notin joined
    /\ tpc[thread] = "t_done"
    /\ joined' = joined \cup {thread}
    /\ hist' = [hist EXCEPT !.stopped = (Head(stack) # "reset_lock")]
    /\ Return(0)
    /\ UNCHANGED <<timerVars, mutex, tpc, nthreads, thread, arg, ioVars,
                   askVars, gameVars, access, calls>>

\* timer_stop line 106 when timer->thread names no joinable thread (never
\* created, or joined before): undefined behaviour of pthread_join; the call
\* returns at once with an error, or the process dies
StopJoinUndefined ==
    /\ pc = "stop_join"
    /\ thread \notin Threads \/ thread \in joined
    /\ \/ /\ hist' = [hist EXCEPT !.stopped = (Head(stack) # "reset_lock")]
          /\ Return(0)
       \/ /\ pc' = "crashed"
          /\ UNCHANGED <<stack, rv, hist>>
    /\ UNCHANGED <<timerVars, mutex, threadVars, arg, ioVars, askVars, gameVars,
                   access, calls>>

\* timer_get_remaining lines 117-120
GetRemaining ==
    /\ pc = "getrem_read"
    /\ access' = Access("timer_get_remaining:117", Main)
    /\ mutex' = NoOwner
    /\ Return(remaining)
    /\ UNCHANGED <<timerVars, threadVars, arg, ioVars, askVars, gameVars,
                   calls, hist>>

\* timer_is_expired lines 129-132 (the bool is returned as 1 or 0)
IsExpired ==
    /\ pc = "isexp_read"
    /\ access' = Access("timer_is_expired:129", Main)
    /\ mutex' = NoOwner
    /\ Return(IF expired THEN 1 ELSE 0)
    /\ UNCHANGED <<timerVars, threadVars, arg, ioVars, askVars, gameVars,
                   calls, hist>>

\* timer_reset lines 136-143: argument check, then the read of running
\* without the mutex and the implicit timer_stop
ResetCheck ==
    /\ pc = "reset_chk"
    /\ IF arg <= 0
       THEN /\ Return(-1)
            /\ UNCHANGED access
       ELSE /\ access' = Access("timer_reset:141", Main)
            /\ IF running
               THEN Call("stop_lock", "reset_lock")
               ELSE /\ pc' = "reset_lock"
                    /\ UNCHANGED stack
            /\ UNCHANGED rv
    /\ UNCHANGED <<timerVars, mutex, threadVars, arg, ioVars, askVars, gameVars,
                   calls, hist>>

\* timer_reset lines 146-151: seconds, remaining = seconds; expired = false
ResetSet ==
    /\ pc = "reset_set"
    /\ seconds' = arg
    /\ remaining' = arg
    /\ expired' = FALSE
    /\ access' = Access("timer_reset:146", Main)
    /\ mutex' = NoOwner
    /\ hist' = [hist EXCEPT !.resetRet = TRUE]
    /\ Return(0)
    /\ UNCHANGED <<running, threadVars, arg, ioVars, askVars, gameVars, calls>>

\* timer_cleanup lines 160-162: read of running without the mutex
CleanupCheck ==
    /\ pc = "cleanup_chk"
    /\ access' = Access("timer_cleanup:160", Main)
    /\ IF running
       THEN Call("stop_lock", "cleanup_destroy")
       ELSE /\ pc' = "cleanup_destroy"
            /\ UNCHANGED stack
    /\ UNCHANGED <<timerVars, mutex, threadVars, arg, rv, ioVars, askVars,
                   gameVars, calls, hist>>

\* timer_cleanup line 164: pthread_mutex_destroy
CleanupDestroy ==
    /\ pc = "cleanup_destroy"
    /\ Return(rv)
    /\ UNCHANGED <<timerVars, mutex, threadVars, arg, ioVars, askVars, gameVars,
                   access, calls, hist>>

(***************************************************************************)
(* A client of timer.h: after timer_init it makes any sequence of calls.   *)
(***************************************************************************)
NoGame == [use_timer |-> FALSE, time_per_question |-> 1, questions_per_game |-> 1,
           num_players |-> 1, difficulty |-> -1]
NoStats == [total_questions |-> 0, correct_answers |-> 0, wrong_answers |-> 0,
            timeouts |-> 0, score |-> 0]
NoPlayer == [score |-> 0, correct_answers |-> 0, wrong_answers |-> 0, timeouts |-> 0]
NoHist == [early |-> FALSE, stopped |-> FALSE, resetRet |-> FALSE, stopAt |-> -1]

\* timer_init lines 64-67, for a positive number of seconds
TimerInit ==
    /\ seconds \in 1..MaxSeconds
    /\ remaining = seconds
    /\ running = FALSE
    /\ expired = FALSE
    /\ thread = 0
    /\ mutex = NoOwner
    /\ tpc = [t \in Threads |-> "unborn"]
    /\ nthreads = 0
    /\ joined = {}
    /\ pc = "client"
    /\ stack = <<>>
    /\ arg = 0
    /\ rv = 0
    /\ stdin = <<>>
    /\ stdio = <<>>
    /\ eof = FALSE
    /\ input = Uninit
    /\ answer = 0
    /\ result = 0
    /\ config = NoGame
    /\ question = 0
    /\ i = 0
    /\ stats = NoStats
    /\ players = <<>>
    /\ current_player = 0
    /\ game_active = FALSE
    /\ access = [site |-> "locked", held |-> TRUE]
    /\ calls = 0
    /\ hist = NoHist

ClientCall(label) ==
    /\ pc = "client"
    /\ calls < MaxCalls
    /\ calls' = calls + 1
    /\ Call(label, "client")
    /\ UNCHANGED <<timerVars, mutex, threadVars, rv, ioVars, askVars, gameVars,
                   access>>

ClientStart ==
    /\ ClientCall("start_lock")
    /\ hist' = [hist EXCEPT !.stopped = FALSE, !.resetRet = FALSE, !.stopAt = -1]
    /\ UNCHANGED arg

ClientStop ==
    /\ ClientCall("stop_lock")
    /\ UNCHANGED <<arg, hist>>

ClientReset ==
    /\ ClientCall("reset_chk")
    /\ arg' \in 0..MaxSeconds
    /\ hist' = [hist EXCEPT !.stopped = FALSE, !.resetRet = FALSE, !.stopAt = -1]

ClientGetRemaining ==
    /\ ClientCall("getrem_lock")
    /\ UNCHANGED <<arg, hist>>

ClientIsExpired ==
    /\ ClientCall("isexp_lock")
    /\ UNCHANGED <<arg, hist>>

ThreadStep ==
    \E t \in Threads :
        \/ ThreadEntry(t) \/ ThreadInit(t) \/ ThreadLoop(t) \/ ThreadSleepLock(t)
        \/ ThreadTick(t) \/ ThreadFinLock(t) \/ ThreadFin(t)

TimerCallStep ==
    \/ MainLock \/ StartCheck \/ StartCreate \/ StopSet \/ StopJoin
    \/ GetRemaining \/ IsExpired \/ ResetCheck \/ ResetSet

TimerNext ==
    \/ ClientStart \/ ClientStop \/ ClientReset \/ ClientGetRemaining
    \/ ClientIsExpired
    \/ TimerCallStep
    \/ StopJoinUndefined
    \/ ThreadStep

TimerSpec == TimerInit /\ [][TimerNext]_vars

TimerTypeOK ==
    /\ seconds \in 1..MaxSeconds
    /\ remaining \in Int
    /\ running \in BOOLEAN /\ expired \in BOOLEAN
    /\ thread \in 0..MaxThreads
    /\ mutex \in {NoOwner, Main} \cup Threads
    /\ nthreads \in 0..MaxThreads
    /\ joined \subseteq Threads

(***************************************************************************)
(* The question bank of a session (questions.h: Question, QuestionBank).   *)
(* nopts is the number of non-empty option strings of the question.        *)
(***************************************************************************)
Bank == << [correct_answer |-> 0, difficulty |-> DIFFICULTY_EASY,   nopts |-> 4],
           [correct_answer |-> 1, difficulty |-> DIFFICULTY_MEDIUM, nopts |-> 2] >>

\* (a question source that ignores the difficulty asked for)
GetRandomChoices_NoFilter(bank, difficulty) ==
    IF Len(bank) = 0 THEN {} ELSE 1..Len(bank)

\* questions.c lines 207-248: question_bank_get_random; the indices it may
\* return (rand() % valid_count is any of them), empty when it returns NULL
GetRandomChoices(bank, difficulty) ==
    IF Len(bank) = 0 THEN {}
    ELSE IF difficulty >= 0 /\ difficulty < DIFFICULTY_COUNT
         THEN {k \in 1..Len(bank) : bank[k].difficulty = difficulty}
         ELSE 1..Len(bank)

\* (a score that gives every difficulty the points of Easy)
BasePoints_Flat(difficulty) == 10

\* (a score that charges for a correct answer)
BasePoints_Penalty(difficulty) == -20

\* game.c lines 94-119: game_calculate_score (C division truncates)
BasePoints(difficulty) ==
    CASE difficulty = DIFFICULTY_EASY   -> 10
      [] difficulty = DIFFICULTY_MEDIUM -> 20
      [] difficulty = DIFFICULTY_HARD   -> 30
      [] OTHER -> 10

\* (a time bonus that keeps the remainder instead of the quotient)
CDiv_Remainder(a, b) == a % b

CDiv(a, b) == IF a >= 0 THEN a \div b ELSE -((-a) \div b)

\* (a score that forgets the points for the time left)
game_calculate_score_NoBonus(correct, time_remaining, difficulty) ==
    IF ~correct THEN 0 ELSE BasePoints(difficulty)

game_calculate_score(correct, time_remaining, difficulty) ==
    IF ~correct THEN 0
    ELSE BasePoints(difficulty) + CDiv(time_remaining, 2)

(***************************************************************************)
(* Standard input: what the stdio calls see, and the lines a player may    *)
(* type.                                                                   *)
(***************************************************************************)
\* fgets and getchar have characters to take without waiting
HasLine == stdio # <<>> \/ stdin # <<>>

\* the text up to the next new-line: the buffered piece first
NextLine == IF stdio # <<>> THEN Head(stdio) ELSE Head(stdin)

\* the terminal's queue once that text has been taken
RestOfStdin == IF stdio # <<>> THEN stdin ELSE Tail(stdin)

GameLines == { <<" ", "Q">>, <<"1">>, <<"4", " ">>, <<"5">> }

\* (a quit test that forgets the upper-case letter)
IsQuit_LowerOnly(s) == s # <<>> /\ s[1] = "q"

\* game.c lines 182, 210: input[0] == 'q' || input[0] == 'Q'
IsQuit(s) == s # <<>> /\ s[1] \in {"q", "Q"}

\* (a range test that forgets the upper limit)
InRange_NoUpper(n) == n >= 1

\* game.c lines 188, 215: answer >= 1 && answer <= MAX_OPTIONS
InRange(n) == n >= 1 /\ n <= MAX_OPTIONS

\* game.c lines 187-188, 214-215: a number in 1..MAX_OPTIONS
IsChoice(s) ==
    LET v == is_valid_integer(s)
    IN  v.ok /\ InRange(v.value)

\* labels of the timed polling loop, game.c lines 163-203
PollLabels == {"poll_head", "poll_rem", "poll_exp", "poll_select", "poll_read",
               "poll_disp"}

\* the main thread is in the polling loop or in a timer call made from it
Waiting == \/ pc \in PollLabels
           \/ stack # <<>> /\ stack[Len(stack)] \in PollLabels

\* hist once the line l has been typed: a quit or a choice has become
\* available while the round waits and time is left
Typed(l) ==
    [hist EXCEPT !.early =
        \/ hist.early
        \/ /\ Waiting
           /\ remaining > 0
           /\ LET s == sanitize_input(l)
              IN  IsQuit(s) \/ IsChoice(s)]

\* the player types a line
TypeLine ==
    /\ ~eof
    /\ Len(stdin) < MaxPending
    /\ \E l \in GameLines :
          /\ stdin' = Append(stdin, l)
          /\ hist' = Typed(l)
    /\ UNCHANGED <<timerVars, mutex, threadVars, mainVars, stdio, eof, askVars,
                   gameVars, access, calls>>

\* the input ends (end of file on stdin)
CloseInput ==
    /\ ~eof
    /\ eof' = TRUE
    /\ UNCHANGED <<timerVars, mutex, threadVars, mainVars, stdin, stdio, askVars,
                   gameVars, access, calls, hist>>

(***************************************************************************)
(* game.c : game_init, lines 15-49; a session starts after it.             *)
(***************************************************************************)
Configs ==
    { c \in [use_timer : BOOLEAN, time_per_question : {MaxSeconds},
             questions_per_game : 1..MaxRounds, num_players : 1..MaxPlayers,
             difficulty : {-1, DIFFICULTY_MEDIUM, DIFFICULTY_HARD}] :
        c.questions_per_game * c.num_players <=
            (IF c.use_timer THEN MaxTimedRounds ELSE MaxRounds) }

Init ==
    /\ config \in Configs
    /\ seconds = config.time_per_question
    /\ remaining = seconds
    /\ running = FALSE
    /\ expired = FALSE
    /\ thread = 0
    /\ mutex = NoOwner
    /\ tpc = [t \in Threads |-> "unborn"]
    /\ nthreads = 0
    /\ joined = {}
    /\ pc = "run_start"
    /\ stack = <<>>
    /\ arg = 0
    /\ rv = 0
    /\ stdin = <<>>
    /\ stdio = <<>>
    /\ eof = FALSE
    /\ input = Uninit
    /\ answer = 0
    /\ result = 0
    /\ question = 0
    /\ i = 0
    /\ stats = NoStats
    /\ players = IF config.num_players > 1
                 THEN [p \in 0..(config.num_players - 1) |-> NoPlayer]
                 ELSE <<>>
    /\ current_player = 0
    /\ game_active = FALSE
    /\ access = [site |-> "locked", held |-> TRUE]
    /\ calls = 0
    /\ hist = NoHist

(***************************************************************************)
(* game.c : game_run, lines 225-350.                                       *)
(***************************************************************************)
\* (a round count that forgets the players)
TotalRounds_PerGame == config.questions_per_game

\* lines 249-252
TotalRounds ==
    IF config.num_players > 1
    THEN config.questions_per_game * config.num_players
    ELSE config.questions_per_game

\* (a turn that moves on without wrapping around)
game_next_player_NoWrap(player, num_players) ==
    IF num_players <= 1 THEN player ELSE player + 1

\* lines 86-92: game_next_player, the new value of current_player
game_next_player(player, num_players) ==
    IF num_players <= 1 THEN player ELSE (player + 1) % num_players

\* (a comparison that forgets that choices are numbered from 1)
IsCorrect_ZeroBased(user_answer, q) == user_answer = q.correct_answer

\* line 276: correct = (user_answer == question->correct_answer + 1)
IsCorrect(user_answer, q) == user_answer = q.correct_answer + 1

\* line 230: game_active = true
RunStart ==
    /\ pc = "run_start"
    /\ game_active' = TRUE
    /\ pc' = "run_wait0"
    /\ UNCHANGED <<timerVars, mutex, threadVars, stack, arg, rv, ioVars, askVars,
                   config, question, i, stats, players, current_player,
                   access, calls, hist>>

\* line 246: wait_for_enter() reads up to the end of a line; line 255: i = 0
RunWaitFirst ==
    /\ pc = "run_wait0"
    /\ HasLine
    /\ stdin' = RestOfStdin
    /\ stdio' = <<>>
    /\ i' = 0
    /\ pc' = "run_loop"
    /\ UNCHANGED <<timerVars, mutex, threadVars, stack, arg, rv, eof, askVars,
                   config, question, stats, players, current_player, game_active,
                   access, calls, hist>>

\* lines 255-265: loop test, question_bank_get_random, NULL check
RunLoop ==
    /\ pc = "run_loop"
    /\ LET difficulty_filter == IF config.difficulty >= 0 THEN config.difficulty ELSE -1
           choices == GetRandomChoices(Bank, difficulty_filter)
       IN  IF i < TotalRounds /\ choices # {}
           THEN /\ question' \in choices
                /\ pc' = "ask"
           ELSE /\ pc' = "run_end"
                /\ UNCHANGED question
    /\ UNCHANGED <<timerVars, mutex, threadVars, stack, arg, rv, ioVars, askVars,
                   config, i, stats, players, current_player, game_active,
                   access, calls, hist>>

\* lines 270-279: quit check; time_remaining
RunCheck ==
    /\ pc = "run_check"
    /\ IF result = -1
       THEN /\ pc' = "run_end"
            /\ UNCHANGED <<stack, rv>>
       ELSE IF config.use_timer
            THEN /\ Call("getrem_lock", "run_score")
                 /\ UNCHANGED rv
            ELSE /\ rv' = config.time_per_question
                 /\ pc' = "run_score"
                 /\ UNCHANGED stack
    /\ UNCHANGED <<timerVars, mutex, threadVars, arg, ioVars, askVars, gameVars,
                   access, calls, hist>>

\* (a booking that leaves a timed-out round out of total_questions)
RunScore_TimeoutUncounted ==
    /\ pc = "run_score"
    /\ LET q       == Bank[question]
           correct == IsCorrect(result, q)
           points  == game_calculate_score(TRUE, rv, q.difficulty)
       IN  IF config.num_players > 1
           THEN /\ players' =
                     [players EXCEPT ![current_player] =
                        IF result = 0
                        THEN [@ EXCEPT !.timeouts = @ + 1]
                        ELSE IF correct
                        THEN [@ EXCEPT !.correct_answers = @ + 1,
                                       !.score = @ + points]
                        ELSE [@ EXCEPT !.wrong_answers = @ + 1]]
                /\ UNCHANGED stats
           ELSE /\ stats' =
                     IF result = 0
                     THEN [stats EXCEPT !.timeouts = @ + 1]
                     ELSE IF correct
                     THEN [stats EXCEPT !.total_questions = @ + 1,
                                        !.correct_answers = @ + 1,
                                        !.score = @ + points]
                     ELSE [stats EXCEPT !.total_questions = @ + 1,
                                        !.wrong_answers = @ + 1]
                /\ UNCHANGED players
    /\ pc' = "run_wait"
    /\ UNCHANGED <<timerVars, mutex, threadVars, stack, arg, rv, ioVars, askVars,
                   config, question, i, current_player, game_active,
                   access, calls, hist>>

\* lines 276, 281-325: the round is booked on the current player or on stats
RunScore ==
    /\ pc = "run_score"
    /\ LET q       == Bank[question]
           correct == IsCorrect(result, q)
           points  == game_calculate_score(TRUE, rv, q.difficulty)
       IN  IF config.num_players > 1
           THEN /\ players' =
                     [players EXCEPT ![current_player] =
                        IF result = 0
                        THEN [@ EXCEPT !.timeouts = @ + 1]
                        ELSE IF correct
                        THEN [@ EXCEPT !.correct_answers = @ + 1,
                                       !.score = @ + points]
                        ELSE [@ EXCEPT !.wrong_answers = @ + 1]]
                /\ UNCHANGED stats
           ELSE /\ stats' =
                     IF result = 0
                     THEN [stats EXCEPT !.total_questions = @ + 1,
                                        !.timeouts = @ + 1]
                     ELSE IF correct
                     THEN [stats EXCEPT !.total_questions = @ + 1,
                                        !.correct_answers = @ + 1,
                                        !.score = @ + points]
                     ELSE [stats EXCEPT !.total_questions = @ + 1,
                                        !.wrong_answers = @ + 1]
                /\ UNCHANGED players
    /\ pc' = "run_wait"
    /\ UNCHANGED <<timerVars, mutex, threadVars, stack, arg, rv, ioVars, askVars,
                   config, question, i, current_player, game_active,
                   access, calls, hist>>

\* lines 338-344: wait_for_enter(); game_next_player (lines 86-92); i++
RunWait ==
    /\ pc = "run_wait"
    /\ HasLine
    /\ stdin' = RestOfStdin
    /\ stdio' = <<>>
    /\ current_player' = game_next_player(current_player, config.num_players)
    /\ i' = i + 1
    /\ pc' = "run_loop"
    /\ UNCHANGED <<timerVars, mutex, threadVars, stack, arg, rv, eof, askVars,
                   config, question, stats, players, game_active,
                   access, calls, hist>>

\* (a game_run that returns without clearing game_active)
RunEnd_StaysActive ==
    /\ pc = "run_end"
    /\ game_active' = game_active
    /\ rv' = stats.score
    /\ pc' = "game_cleanup"
    /\ UNCHANGED <<timerVars, mutex, threadVars, stack, arg, ioVars, askVars,
                   config, question, i, stats, players, current_player,
                   access, calls, hist>>

\* lines 346-349: game_active = false; report; return stats.score
RunEnd ==
    /\ pc = "run_end"
    /\ game_active' = FALSE
    /\ rv' = stats.score
    /\ pc' = "game_cleanup"
    /\ UNCHANGED <<timerVars, mutex, threadVars, stack, arg, ioVars, askVars,
                   config, question, i, stats, players, current_player,
                   access, calls, hist>>

\* game_cleanup lines 434-436: timer_cleanup when the timer is in use
GameCleanup ==
    /\ pc = "game_cleanup"
    /\ IF config.use_timer
       THEN Call("cleanup_chk", "cleanup_end")
       ELSE /\ pc' = "cleanup_end"
            /\ UNCHANGED stack
    /\ UNCHANGED <<timerVars, mutex, threadVars, arg, rv, ioVars, askVars,
                   gameVars, access, calls, hist>>

\* game_cleanup lines 438-443: free(players); game_active = false
CleanupEnd ==
    /\ pc = "cleanup_end"
    /\ players' = <<>>
    /\ game_active' = FALSE
    /\ pc' = "finished"
    /\ UNCHANGED <<timerVars, mutex, threadVars, stack, arg, rv, ioVars, askVars,
                   config, question, i, stats, current_player, access, calls, hist>>

(***************************************************************************)
(* game.c : game_ask_question, lines 121-223.                              *)
(***************************************************************************)
\* lines 149-160: timer_reset(time_per_question) when the timer is in use;
\* the locals input (uninitialised) and answer = 0
Ask ==
    /\ pc = "ask"
    /\ input' = Uninit
    /\ answer' = 0
    /\ IF config.use_timer
       THEN /\ arg' = config.time_per_question
            /\ Call("reset_chk", "ask_start")
       ELSE /\ pc' = "ask_read"
            /\ UNCHANGED <<stack, arg>>
    /\ hist' = NoHist
    /\ UNCHANGED <<timerVars, mutex, threadVars, rv, ioVars, result, gameVars,
                   access, calls>>

\* line 151: timer_start
AskStart ==
    /\ pc = "ask_start"
    /\ Call("start_lock", "poll_head")
    /\ hist' = [hist EXCEPT !.resetRet = FALSE]
    /\ UNCHANGED <<timerVars, mutex, threadVars, arg, rv, ioVars, askVars,
                   gameVars, access, calls>>

\* line 163: timer_get_remaining for the loop test
PollHead ==
    /\ pc = "poll_head"
    /\ Call("getrem_lock", "poll_rem")
    /\ UNCHANGED <<timerVars, mutex, threadVars, arg, rv, ioVars, askVars,
                   gameVars, access, calls, hist>>

\* (a loop test that gives up one second early)
PollRem_OneEarly ==
    /\ pc = "poll_rem"
    /\ IF rv > 1
       THEN /\ Call("isexp_lock", "poll_exp")
            /\ UNCHANGED result
       ELSE /\ result' = 0
            /\ pc' = "run_check"
            /\ UNCHANGED stack
    /\ UNCHANGED <<timerVars, mutex, threadVars, arg, rv, ioVars, input, answer,
                   gameVars, access, calls, hist>>

\* line 163: remaining > 0 ? line 164 timer_is_expired : leave the loop,
\* lines 206, 222: return 0
PollRem ==
    /\ pc = "poll_rem"
    /\ IF rv > 0
       THEN /\ Call("isexp_lock", "poll_exp")
            /\ UNCHANGED result
       ELSE /\ result' = 0
            /\ pc' = "run_check"
            /\ UNCHANGED stack
    /\ UNCHANGED <<timerVars, mutex, threadVars, arg, rv, ioVars, input, answer,
                   gameVars, access, calls, hist>>

\* lines 164-168: expired ? timer_stop; return 0
PollExp ==
    /\ pc = "poll_exp"
    /\ IF rv # 0
       THEN /\ result' = 0
            /\ Call("stop_lock", "run_check")
       ELSE /\ pc' = "poll_select"
            /\ UNCHANGED <<stack, result>>
    /\ UNCHANGED <<timerVars, mutex, threadVars, arg, rv, ioVars, input, answer,
                   gameVars, access, calls, hist>>

\* lines 171-178: select on stdin with a timeout of 0.1 s
PollSelect ==
    /\ pc = "poll_select"
    /\ pc' = IF stdin # <<>> \/ eof THEN "poll_read" ELSE "poll_disp"
    /\ UNCHANGED <<timerVars, mutex, threadVars, stack, arg, rv, ioVars, askVars,
                   gameVars, access, calls, hist>>

\* (a loop that takes a failed read for the end of the round)
PollRead_FailEndsRound ==
    /\ pc = "poll_read"
    /\ IF ~HasLine
       THEN /\ result' = 0
            /\ Call("stop_lock", "run_check")
            /\ UNCHANGED <<stdin, stdio, input, answer>>
       ELSE LET r == read_input(NextLine, MAX_INPUT_LEN)
                s == sanitize_input(r.buffer)
                v == is_valid_integer(s)
            IN  /\ stdin' = RestOfStdin
                /\ stdio' = r.rest
                /\ input' = s
                /\ IF IsQuit(s)
                   THEN /\ result' = -1
                        /\ Call("stop_lock", "run_check")
                        /\ UNCHANGED answer
                   ELSE /\ answer' = IF v.ok THEN v.value ELSE answer
                        /\ IF v.ok /\ InRange(v.value)
                           THEN /\ result' = v.value
                                /\ Call("stop_lock", "run_check")
                           ELSE /\ pc' = "poll_disp"
                                /\ UNCHANGED <<stack, result>>
    /\ UNCHANGED <<timerVars, mutex, threadVars, arg, rv, eof, gameVars,
                   access, calls, hist>>

\* lines 179-196: read_input, sanitize_input, quit, valid choice, invalid
PollRead ==
    /\ pc = "poll_read"
    /\ IF ~HasLine
       THEN /\ pc' = "poll_disp"
            /\ UNCHANGED <<stack, stdin, stdio, askVars>>
       ELSE LET r == read_input(NextLine, MAX_INPUT_LEN)
                s == sanitize_input(r.buffer)
                v == is_valid_integer(s)
            IN  /\ stdin' = RestOfStdin
                /\ stdio' = r.rest
                /\ input' = s
                /\ IF IsQuit(s)
                   THEN /\ result' = -1
                        /\ Call("stop_lock", "run_check")
                        /\ UNCHANGED answer
                   ELSE /\ answer' = IF v.ok THEN v.value ELSE answer
                        /\ IF v.ok /\ InRange(v.value)
                           THEN /\ result' = v.value
                                /\ Call("stop_lock", "run_check")
                           ELSE /\ pc' = "poll_disp"
                                /\ UNCHANGED <<stack, result>>
    /\ UNCHANGED <<timerVars, mutex, threadVars, arg, rv, eof, gameVars,
                   access, calls, hist>>

\* lines 200-202: timer_get_remaining for the display, back to the loop test
PollDisp ==
    /\ pc = "poll_disp"
    /\ Call("getrem_lock", "poll_head")
    /\ UNCHANGED <<timerVars, mutex, threadVars, arg, rv, ioVars, askVars,
                   gameVars, access, calls, hist>>

\* lines 206-222: without the timer, one blocking read
AskRead ==
    /\ pc = "ask_read"
    /\ HasLine \/ eof
    /\ IF ~HasLine
       THEN /\ result' = 0
            /\ UNCHANGED <<stdin, stdio, input, answer>>
       ELSE LET r == read_input(NextLine, MAX_INPUT_LEN)
                s == sanitize_input(r.buffer)
                v == is_valid_integer(s)
            IN  /\ stdin' = RestOfStdin
                /\ stdio' = r.rest
                /\ input' = s
                /\ answer' = IF ~IsQuit(s) /\ v.ok THEN v.value ELSE answer
                /\ result' = IF IsQuit(s) THEN -1
                             ELSE IF v.ok /\ InRange(v.value)
                             THEN v.value
                             ELSE 0
    /\ pc' = "run_check"
    /\ UNCHANGED <<timerVars, mutex, threadVars, stack, arg, rv, eof, gameVars,
                   access, calls, hist>>

GameStep ==
    \/ RunStart \/ RunWaitFirst \/ RunLoop \/ RunCheck \/ RunScore \/ RunWait
    \/ RunEnd \/ GameCleanup \/ CleanupEnd
    \/ Ask \/ AskStart \/ PollHead \/ PollRem \/ PollExp \/ PollSelect
    \/ PollRead \/ PollDisp \/ AskRead

Next ==
    \/ GameStep
    \/ TimerCallStep
    \/ CleanupCheck \/ CleanupDestroy
    \/ ThreadStep
    \/ TypeLine \/ CloseInput

Spec == Init /\ [][Next]_vars

(***************************************************************************)
(* Properties.                                                             *)
(***************************************************************************)
Fields == <<remaining, running, expired>>

\* the record a round is booked on: the current player, or the aggregate
Active == IF config.num_players > 1 THEN players[current_player] ELSE stats

\* game_ask_question has just returned to game_run from a timed round
TimedRoundReturned == pc = "run_check" /\ config.use_timer

\* C1: in a timed round, once a line whose first character after trimming is
\* 'q' or 'Q' has been read, the round returns -1 (Quit), never 0 (TimedOut).
C1_QuitPreempts ==
    (TimedRoundReturned /\ input # Uninit /\ input # <<>> /\ Head(input) \in {"q", "Q"})
        => result = -1

\* C1 witness: a quit line read with one second left of two, returned as -1
C1_Witness ==
    /\ TimedRoundReturned
    /\ input = <<"Q">>
    /\ result = -1
    /\ seconds = 2
    /\ hist.stopAt = 1

\* C2: a timed round in which a valid choice or a quit line became available
\* while remaining was still positive does not resolve as TimedOut (0).
C2_InputBeatsExpiry ==
    (TimedRoundReturned /\ hist.early) => result # 0

\* C3: when a timed round hands its outcome to game_run, every countdown
\* thread created so far has been joined.
C3_RoundJoinsCountdown ==
    TimedRoundReturned => \A t \in 1..nthreads : t \in joined

\* C4: after timer_stop has returned, and until the next timer_start or
\* timer_reset call, no step changes remaining, running or expired.
C4_NoChangeAfterStop ==
    [][hist.stopped => UNCHANGED Fields]_vars

\* C5: a timer_start that finds a countdown of an earlier timer_start still
\* in progress returns -1 and creates no second thread.
C5_SecondStartRefused ==
    [][(pc = "start_chk" /\ LiveThreads # {})
          => (pc' = Head(stack) /\ rv' = -1 /\ nthreads' = nthreads)]_vars

\* C6: timer_reset(d), d > 0, returns with remaining = d and expired = false,
\* and from its return to the next timer_start no step changes remaining,
\* running or expired.
C6_ResetQuiesces ==
    [][/\ pc = "reset_set" => (remaining' = arg /\ expired' = FALSE)
       /\ hist.resetRet => UNCHANGED Fields]_vars

\* C7: every access to remaining, running and expired is made by a thread
\* that holds the timer's mutex.
C7_AllAccessesLocked == access.held

\* C8: 0 <= remaining <= seconds in every state, and while the countdown is
\* running every change of remaining is a decrement by exactly 1.
C8_RemainingBounded ==
    /\ [](0 <= remaining /\ remaining <= seconds)
    /\ [][(running /\ running' /\ remaining' # remaining)
             => remaining' = remaining - 1]_vars

\* C9: expired implies remaining = 0; expired is cleared only by timer_reset
\* or by the start of a new countdown; a countdown stopped while
\* remaining > 0 is never marked expired.
C9_ExpiredSticky ==
    /\ [](expired => remaining = 0)
    /\ [](hist.stopAt > 0 => ~expired)
    /\ [][(expired /\ ~expired')
             => (pc = "reset_set" \/ \E t \in Threads : tpc[t] = "t_init")]_vars

\* C10: game_ask_question returns -1, 0 or a choice in 1..4, and game_run
\* treats the round as exactly one of Quit (session ends, nothing booked),
\* TimedOut (one timeout booked) or Answered (one correct or wrong booked).
C10_OneOutcome ==
    /\ [](pc = "run_check" => result \in ({-1, 0} \cup (1..4)))
    /\ [][(pc = "run_check" /\ pc' # pc) => (result = -1 <=> pc' = "run_end")]_vars
    /\ [][(pc = "run_score" /\ pc' # pc) =>
            /\ result # -1
            /\ Active'.timeouts = Active.timeouts + (IF result = 0 THEN 1 ELSE 0)
            /\ Active'.correct_answers + Active'.wrong_answers =
                 Active.correct_answers + Active.wrong_answers
                   + (IF result \in 1..4 THEN 1 ELSE 0)]_vars

\* C10 witness: a round answered 4 and booked as a wrong answer of a player
C10_Witness ==
    /\ pc = "run_wait"
    /\ result = 4
    /\ config.num_players > 1
    /\ players[current_player].wrong_answers = 1
    /\ players[current_player].timeouts = 0

\* C11: a round is resolved as Answered(n) only when n is one of the options
\* of the question asked, 1 <= n <= number of options; a number outside that
\* range is not handed to game_run as an answer.
C11_ChoiceWithinOptions ==
    (pc = "run_check" /\ result \notin {-1, 0})
        => (1 <= result /\ result <= Bank[question].nopts)

\* the answer of a timed round has been read and the round is not yet scored:
\* game_ask_question is in its timer_stop, or game_run is about to read
\* time_remaining
AnswerHeld ==
    /\ config.use_timer
    /\ result \in 1..MAX_OPTIONS
    /\ \/ pc = "run_check"
       \/ /\ pc \in {"stop_lock", "stop_set", "stop_join"}
          /\ Head(stack) = "run_check"
       \/ /\ pc \in {"getrem_lock", "getrem_read"}
          /\ Head(stack) = "run_score"

\* C12: the time_remaining a timed answer is scored with is the value
\* remaining had when the answer was read (remaining does not change between
\* the read and the timer_get_remaining of game_run); without the timer it
\* is config.time_per_question.
C12_TimeAtAnswer ==
    /\ [][AnswerHeld => remaining' = remaining]_vars
    /\ []((pc = "run_score" /\ ~config.use_timer)
            => rv = config.time_per_question)

(***************************************************************************)
(* game_calculate_score called on its own: a caller makes calls with any   *)
(* arguments, one after the other.                                         *)
(***************************************************************************)
ScoreTimes == (0..MaxTime) \cup {INT_MAX}

ScoreArgs == [correct : BOOLEAN, time_remaining : ScoreTimes,
              difficulty : {DIFFICULTY_EASY, DIFFICULTY_MEDIUM, DIFFICULTY_HARD,
                            DIFFICULTY_COUNT}]

ScoreInit ==
    /\ seconds = 1
    /\ remaining = 1
    /\ running = FALSE
    /\ expired = FALSE
    /\ thread = 0
    /\ mutex = NoOwner
    /\ tpc = [t \in Threads |-> "unborn"]
    /\ nthreads = 0
    /\ joined = {}
    /\ pc = "score_call"
    /\ stack = <<>>
    /\ arg \in ScoreArgs
    /\ rv = 0
    /\ stdin = <<>>
    /\ stdio = <<>>
    /\ eof = FALSE
    /\ input = Uninit
    /\ answer = 0
    /\ result = 0
    /\ config = NoGame
    /\ question = 0
    /\ i = 0
    /\ stats = NoStats
    /\ players = <<>>
    /\ current_player = 0
    /\ game_active = FALSE
    /\ access = [site |-> "locked", held |-> TRUE]
    /\ calls = 0
    /\ hist = NoHist

\* the call: game.c lines 94-119
ScoreCall ==
    /\ pc = "score_call"
    /\ rv' = game_calculate_score(arg.correct, arg.time_remaining, arg.difficulty)
    /\ pc' = "score_done"
    /\ UNCHANGED <<timerVars, mutex, threadVars, stack, arg, ioVars, askVars,
                   gameVars, access, calls, hist>>

\* the caller chooses the arguments of its next call
ScoreAgain ==
    /\ pc = "score_done"
    /\ arg' \in ScoreArgs
    /\ pc' = "score_call"
    /\ UNCHANGED <<timerVars, mutex, threadVars, stack, rv, ioVars, askVars,
                   gameVars, access, calls, hist>>

ScoreNext == ScoreCall \/ ScoreAgain

ScoreSpec == ScoreInit /\ [][ScoreNext]_vars

\* C13: game_calculate_score returns 0 when correct is false, and
\* base + floor(time_remaining / 2) when correct is true, with base 10 for
\* Easy, 20 for Medium and 30 for Hard, whatever was computed before; the
\* sum fits in an int.
C13_ScoreFormula ==
    (pc = "score_done" /\ arg.difficulty # DIFFICULTY_COUNT) =>
        /\ ~arg.correct => rv = 0
        /\ arg.correct =>
             /\ rv = (arg.time_remaining \div 2)
                        + (CASE arg.difficulty = DIFFICULTY_EASY -> 10
                             [] arg.difficulty = DIFFICULTY_MEDIUM -> 20
                             [] arg.difficulty = DIFFICULTY_HARD -> 30)
             /\ rv <= INT_MAX

\* C13 witness: the call (true, 10, Medium) has returned 25
C13_Witness ==
    /\ pc = "score_done"
    /\ arg = [correct |-> TRUE, time_remaining |-> 10,
              difficulty |-> DIFFICULTY_MEDIUM]
    /\ rv = 25

\* C14: for correct = true and a fixed difficulty the score does not
\* decrease with time_remaining: no smaller time_remaining scores more.
C14_ScoreMonotone ==
    (pc = "score_done" /\ arg.correct) =>
        \A t1 \in ScoreTimes :
            t1 <= arg.time_remaining
                => game_calculate_score(TRUE, t1, arg.difficulty) <= rv

\* C14 witness: a correct answer scored with an odd time_remaining, which
\* earns what the even value below it earns and more than smaller values
C14_Witness ==
    /\ pc = "score_done"
    /\ arg.correct
    /\ arg.time_remaining = 5
    /\ rv = game_calculate_score(TRUE, 4, arg.difficulty)
    /\ rv > game_calculate_score(TRUE, 3, arg.difficulty)

\* C15: with N > 1 players current_player is i mod N, i being the number of
\* rounds completed, and current_player is in [0, N) in every state.
C15_TurnRotation ==
    /\ 0 <= current_player
    /\ current_player < config.num_players
    /\ config.num_players > 1 => current_player = i % config.num_players

\* C15 witness: two players, two rounds completed, the turn is back at
\* player 0 after having been at player 1
C15_Witness ==
    /\ pc = "run_loop"
    /\ config.num_players = 2
    /\ i = 2
    /\ current_player = 0
    /\ players[1].correct_answers + players[1].wrong_answers
         + players[1].timeouts = 1

\* the configured difficulty is one that no question of the bank has
NoMatch ==
    /\ config.difficulty >= 0
    /\ config.difficulty < DIFFICULTY_COUNT
    /\ \A k \in 1..Len(Bank) : Bank[k].difficulty # config.difficulty

\* game_run has left its loop, and neither by a quit nor for want of a question
RanToEnd == pc = "run_end" /\ result # -1 /\ ~NoMatch

Counters(r) == <<r.correct_answers, r.wrong_answers, r.timeouts>>

\* C17: the step that books a round resolved as Answered or TimedOut adds 1
\* to exactly one of the active record's counters: timeouts iff the round
\* timed out (0), correct_answers iff choice - 1 = question.correct_answer,
\* wrong_answers otherwise; the score changes only for a correct answer, and
\* the records of the other players do not change.
C17_OneCounter ==
    [][(pc = "run_score" /\ pc' # pc) =>
         LET timedOut == result = 0
             right    == result # 0 /\ result - 1 = Bank[question].correct_answer
             wrong    == ~timedOut /\ ~right
         IN  /\ Active'.timeouts = Active.timeouts + (IF timedOut THEN 1 ELSE 0)
             /\ Active'.correct_answers =
                  Active.correct_answers + (IF right THEN 1 ELSE 0)
             /\ Active'.wrong_answers =
                  Active.wrong_answers + (IF wrong THEN 1 ELSE 0)
             /\ (Active'.score # Active.score) <=> right
             /\ current_player' = current_player
             /\ IF config.num_players > 1
                THEN /\ \A p \in 0..(config.num_players - 1) :
                           p # current_player => players'[p] = players[p]
                     /\ stats' = stats
                ELSE players' = players]_vars

\* C17 witness: the second player has answered correctly after the first
\* player timed out; only the second player's record shows the answer
C17_Witness ==
    /\ pc = "run_wait"
    /\ config.num_players = 2
    /\ current_player = 1
    /\ result = Bank[question].correct_answer + 1
    /\ Counters(players[1]) = <<1, 0, 0>>
    /\ players[1].score > 0
    /\ Counters(players[0]) = <<0, 0, 1>>
    /\ players[0].score = 0

\* game_ask_question has returned -1 and game_run has not yet returned
QuitSeen == result = -1 /\ pc \in {"run_check", "run_end"}

\* C18: once a round has resolved as Quit, game_run asks no further
\* question, changes no score or counter, does not advance current_player,
\* and goes to the final report, which it leaves with game_active = false.
C18_QuitEndsSession ==
    [][QuitSeen =>
         /\ UNCHANGED <<stats, players, current_player, i, question, result>>
         /\ pc' \in {"run_check", "run_end", "game_cleanup"}
         /\ pc = "run_check" /\ pc' # pc => pc' = "run_end"
         /\ pc' = "game_cleanup" => ~game_active']_vars

\* C18 witness: the second player quits in the second round; game_run has
\* returned with the first round booked and the turn still at the second player
C18_Witness ==
    /\ pc = "game_cleanup"
    /\ result = -1
    /\ ~game_active
    /\ config.num_players = 2
    /\ config.questions_per_game = 2
    /\ i = 1
    /\ current_player = 1
    /\ Counters(players[0]) = <<1, 0, 0>>
    /\ Counters(players[1]) = <<0, 0, 0>>

\* C19: when the bank has no question for the configured filter, game_run
\* leaves its loop at that round with no score or counter updated and no
\* question asked, clears game_active, and returns normally (the value it
\* returns is stats.score, not the error value -1).
C19_ExhaustionEndsSession ==
    /\ [][(NoMatch /\ pc = "run_loop" /\ pc' # pc) =>
            /\ pc' = "run_end"
            /\ UNCHANGED <<stats, players, current_player, i, result>>]_vars
    /\ [][(NoMatch /\ pc = "run_end" /\ pc' # pc) =>
            /\ pc' = "game_cleanup"
            /\ ~game_active'
            /\ rv' = stats.score
            /\ rv' # -1
            /\ UNCHANGED <<stats, players, current_player, i, result>>]_vars
    /\ []((NoMatch /\ pc \in {"run_end", "game_cleanup"}) =>
            /\ i = 0
            /\ stats = NoStats
            /\ \A p \in DOMAIN players : players[p] = NoPlayer)

\* C19 witness: a two-player session asking for Hard questions has returned
\* from game_run without a round
C19_Witness ==
    /\ pc = "game_cleanup"
    /\ config.difficulty = DIFFICULTY_HARD
    /\ config.num_players = 2
    /\ ~game_active
    /\ rv = 0
    /\ i = 0
    /\ players = [p \in 0..1 |-> NoPlayer]

(***************************************************************************)
(* One timed round in front of a player who types nothing but invalid      *)
(* lines: empty ones, text that is not a whole number, numbers that are    *)
(* not a choice.  LongLine is a line of MAX_INPUT_LEN characters.          *)
(***************************************************************************)
LongLine == [k \in 1..MAX_INPUT_LEN |-> IF k < MAX_INPUT_LEN THEN "x" ELSE "q"]

InvalidLines == { <<>>, <<" ">>, <<"1", "x">>, <<"5">>, <<"0">>, LongLine }

RoundInit ==
    /\ Init
    /\ config.use_timer
    /\ config.difficulty = -1

\* the player types an invalid line
TypeInvalidLine ==
    /\ ~eof
    /\ Len(stdin) < MaxPending
    /\ \E l \in InvalidLines :
          /\ stdin' = Append(stdin, l)
          /\ hist' = Typed(l)
    /\ UNCHANGED <<timerVars, mutex, threadVars, mainVars, stdio, eof, askVars,
                   gameVars, access, calls>>

RoundNext ==
    \/ RunStart \/ RunWaitFirst \/ RunLoop \/ RunCheck \/ RunScore \/ RunWait
    \/ RunEnd \/ GameCleanup \/ CleanupEnd
    \/ Ask \/ AskStart \/ PollHead \/ PollRem \/ PollExp \/ PollSelect
    \/ PollRead \/ PollDisp
    \/ TimerCallStep
    \/ CleanupCheck \/ CleanupDestroy
    \/ ThreadStep
    \/ TypeInvalidLine \/ CloseInput

RoundSpec == RoundInit /\ [][RoundNext]_vars


\* C20: in a timed round an invalid input line does not end the round and
\* changes neither a score or counter nor the countdown: the read of the line
\* leaves remaining, running and expired as the countdown set them and the
\* round goes on waiting, so that a round in which only invalid lines are
\* typed can end by expiry only.
C20_InvalidKeepsWaiting ==
    /\ [][(pc = "poll_read" /\ pc' # pc) =>
            /\ pc' = "poll_disp"
            /\ UNCHANGED <<seconds, remaining, running, expired, threadVars,
                           stats, players, current_player, result>>]_vars
    /\ [](TimedRoundReturned => result = 0)

(***************************************************************************)
(* A session without the timer.  The player types short lines and lines    *)
(* that fill the input buffer: PaddedLine is "1", blanks up to column 255  *)
(* and an "x" in column MAX_INPUT_LEN.                                     *)
(***************************************************************************)
PaddedLine ==
    [k \in 1..MAX_INPUT_LEN |->
        IF k = 1 THEN "1" ELSE IF k < MAX_INPUT_LEN THEN " " ELSE "x"]

PlainLines == { <<>>, <<"1">>, <<"5">>, <<"1", "x">>, <<"q">>, PaddedLine }

PlainInit ==
    /\ Init
    /\ ~config.use_timer

\* the player types a line while no timer runs
TypePlainLine ==
    /\ ~eof
    /\ Len(stdin) < MaxPending
    /\ \E l \in PlainLines :
          /\ stdin' = Append(stdin, l)
          /\ hist' = Typed(l)
    /\ UNCHANGED <<timerVars, mutex, threadVars, mainVars, stdio, eof, askVars,
                   gameVars, access, calls>>

PlainNext ==
    \/ RunStart \/ RunWaitFirst \/ RunLoop \/ RunCheck \/ RunScore \/ RunWait
    \/ RunEnd \/ GameCleanup \/ CleanupEnd
    \/ Ask \/ AskRead
    \/ TypePlainLine \/ CloseInput

PlainSpec == PlainInit /\ [][PlainNext]_vars

\* the line that game_ask_question is about to read is neither a quit
\* command nor a valid choice
InvalidLineNext ==
    /\ pc = "ask_read"
    /\ HasLine
    /\ LET s == sanitize_input(NextLine)
       IN  ~IsQuit(s) /\ ~IsChoice(s)

\* C21: without the timer game_ask_question reads exactly one line; when the
\* line is neither a quit command nor a valid choice it returns 0 without
\* asking again, and game_run books the round as a timeout with 0 points on
\* the active player (or on the aggregate statistics).
C21_InvalidIsTimeout ==
    /\ [][InvalidLineNext /\ pc' # pc =>
            /\ result' = 0
            /\ pc' = "run_check"
            /\ stdin' = Tail(stdin)
            /\ stdio' = <<>>]_vars
    /\ [][(pc = "run_score" /\ ~config.use_timer /\ result = 0 /\ pc' # pc) =>
            /\ pc' = "run_wait"
            /\ Active'.timeouts = Active.timeouts + 1
            /\ Active'.score = Active.score
            /\ Active'.correct_answers = Active.correct_answers
            /\ Active'.wrong_answers = Active.wrong_answers]_vars

(***************************************************************************)
(* Functions called on their own.  CallInit is the state in which nothing  *)
(* but the main thread exists and the call `label` is about to be made     *)
(* with the argument a; what the call reads and writes through its         *)
(* pointer arguments is part of a, and of the value left in rv.            *)
(***************************************************************************)
CallInit(label, a) ==
    /\ seconds = 1
    /\ remaining = 1
    /\ running = FALSE
    /\ expired = FALSE
    /\ thread = 0
    /\ mutex = NoOwner
    /\ tpc = [t \in Threads |-> "unborn"]
    /\ nthreads = 0
    /\ joined = {}
    /\ pc = label
    /\ stack = <<>>
    /\ arg = a
    /\ rv = 0
    /\ stdin = <<>>
    /\ stdio = <<>>
    /\ eof = FALSE
    /\ input = Uninit
    /\ answer = 0
    /\ result = 0
    /\ config = NoGame
    /\ question = 0
    /\ i = 0
    /\ stats = NoStats
    /\ players = <<>>
    /\ current_player = 0
    /\ game_active = FALSE
    /\ access = [site |-> "locked", held |-> TRUE]
    /\ calls = 0
    /\ hist = NoHist

(***************************************************************************)
(* game.c : game_display_stats, lines 352-427, the report of a session     *)
(* with several players.  A player's name is empty after game_init (line   *)
(* 68) until a caller stores one.                                          *)
(***************************************************************************)
MaxListed == 4
MaxPoints == 2

EnteredName == <<"Ann", "Bob", "Cem", "Dee", "Eve">>

\* the state of a game of n players with the scores sc, of whom those with
\* nm were given a name by the caller
ReportState(n, sc, nm) ==
    [num_players |-> n,
     players |-> [p \in 0..(n - 1) |->
                    [score |-> sc[p],
                     name  |-> IF nm[p] THEN EnteredName[p + 1] ELSE ""]]]

\* lines 366-368, 403-406: the text printed for the player at index idx
PlayerLabel(state, idx) ==
    IF state.players[idx].name # "" THEN state.players[idx].name
    ELSE IF idx = 0 THEN "Player 1"
    ELSE IF idx = 1 THEN "Player 2"
    ELSE "Player"

\* lines 392-400: the loop over the players from index k on
RECURSIVE FindWinner(_, _, _)
FindWinner(state, k, acc) ==
    IF k >= state.num_players THEN acc
    ELSE FindWinner(state, k + 1,
            IF state.players[k].score > acc.max_score
            THEN [max_score |-> state.players[k].score, winner_idx |-> k,
                  tie |-> FALSE]
            ELSE IF state.players[k].score = acc.max_score
            THEN [acc EXCEPT !.tie = TRUE]
            ELSE acc)

\* lines 363-410: what the report prints: the label of each player in the
\* list of scores, then either the tie or the winner's label and points
game_display_stats(state) ==
    LET w == FindWinner(state, 1, [max_score |-> state.players[0].score,
                                   winner_idx |-> 0, tie |-> FALSE])
    IN  [listed    |-> [p \in 0..(state.num_players - 1) |-> PlayerLabel(state, p)],
         tie       |-> w.tie,
         winner    |-> IF w.tie THEN "" ELSE PlayerLabel(state, w.winner_idx),
         max_score |-> w.max_score]

\* game_display_stats is called with 2..MaxListed players with any scores,
\* each of them named by the caller or not
ReportInit ==
    \E n \in 2..MaxListed :
        \E sc \in [0..(n - 1) -> 0..MaxPoints], nm \in [0..(n - 1) -> BOOLEAN] :
            CallInit("report_call", ReportState(n, sc, nm))

\* the call: game.c lines 352-427
ReportCall ==
    /\ pc = "report_call"
    /\ rv' = game_display_stats(arg)
    /\ pc' = "report_done"
    /\ UNCHANGED <<timerVars, mutex, threadVars, stack, arg, ioVars, askVars,
                   gameVars, access, calls, hist>>

ReportNext == ReportCall

ReportSpec == ReportInit /\ [][ReportNext]_vars

\* the players holding the highest score
MaxHolders(state) ==
    {p \in DOMAIN state.players :
        \A o \in DOMAIN state.players : state.players[o].score <= state.players[p].score}

C23_ScoresNeverDrop ==
    /\ [](/\ stats.score >= 0
          /\ \A p \in DOMAIN players : players[p].score >= 0)
    /\ [][/\ stats'.score >= stats.score
          /\ \A p \in DOMAIN players \cap DOMAIN players' :
                players'[p].score >= players[p].score]_vars
    /\ [][(/\ pc = "run_score"
           /\ pc' # pc
           /\ result = 0 \/ ~IsCorrect(result, Bank[question])) =>
            /\ stats'.score = stats.score
            /\ \A p \in DOMAIN players : players'[p].score = players[p].score]_vars

\* C23 witness: a single player has scored in one round and has then let a
\* round go by without an answer; the score is still the one of the first
\* round
C23_Witness ==
    /\ pc = "run_wait"
    /\ config.num_players = 1
    /\ i = 1
    /\ result = 0
    /\ stats.correct_answers = 1
    /\ stats.timeouts = 1
    /\ stats.score >= 10

\* C24: no question is presented in more than one round of a session:
\* questions are drawn without replacement, so the question of a round is
\* never the question of the round before it.
C24_NoRepeat ==
    [][(pc = "run_loop" /\ pc' = "ask" /\ i > 0) => question' # question]_vars

(***************************************************************************)
(* questions.c : question_bank_get_random (lines 207-248) and              *)
(* question_bank_get_random_unused (lines 250-303) called on their own.    *)
(* A bank is the sequence of its count questions; a pointer to a question  *)
(* is the place of the question in the sequence, NULL is 0.  malloc_ok     *)
(* tells whether the call finds memory for its array of indices.           *)
(***************************************************************************)
MaxBank == 3

NULL == 0

Tiers == {DIFFICULTY_EASY, DIFFICULTY_MEDIUM, DIFFICULTY_HARD}

PickBanks ==
    UNION { [1..n -> [correct_answer : {0}, difficulty : Tiers, nopts : {4}]] :
            n \in 0..MaxBank }

\* used_questions is NULL (not given) or an array of used_count flags
NoUsed == [given |-> FALSE, flags |-> <<>>]

PickUsed ==
    {NoUsed} \cup { [given |-> TRUE, flags |-> f] :
                       f \in UNION { [1..n -> BOOLEAN] : n \in 0..MaxBank } }

PickArgs == [bank : PickBanks, difficulty : {-1} \cup Tiers,
             used_questions : PickUsed, malloc_ok : BOOLEAN]

\* (a draw that ignores the difficulty asked for)
question_bank_get_random_AnyTier(bank, difficulty, malloc_ok) ==
    IF Len(bank) = 0 THEN {NULL} ELSE 1..Len(bank)

\* lines 207-248: the values question_bank_get_random may return
question_bank_get_random(bank, difficulty, malloc_ok) ==
    IF Len(bank) = 0 THEN {NULL}
    ELSE IF difficulty >= 0 /\ difficulty < DIFFICULTY_COUNT
    THEN IF ~malloc_ok THEN {NULL}
         ELSE LET valid_indices == {k \in 1..Len(bank) : bank[k].difficulty = difficulty}
              IN  IF valid_indices = {} THEN {NULL} ELSE valid_indices
    ELSE 1..Len(bank)

\* lines 266-268, 283: the question at place k is not excluded
NotUsed(used_questions, k) ==
    \/ ~used_questions.given
    \/ k > Len(used_questions.flags)
    \/ ~used_questions.flags[k]

\* (a draw that forgets the exclusion set)
question_bank_get_random_unused_Forgetful(bank, difficulty, used_questions, malloc_ok) ==
    question_bank_get_random(bank, difficulty, malloc_ok)

\* lines 250-303: the values question_bank_get_random_unused may return
question_bank_get_random_unused(bank, difficulty, used_questions, malloc_ok) ==
    IF Len(bank) = 0 THEN {NULL}
    ELSE IF ~malloc_ok THEN {NULL}
    ELSE LET valid_indices ==
                 IF difficulty >= 0 /\ difficulty < DIFFICULTY_COUNT
                 THEN {k \in 1..Len(bank) : /\ bank[k].difficulty = difficulty
                                            /\ NotUsed(used_questions, k)}
                 ELSE {k \in 1..Len(bank) : NotUsed(used_questions, k)}
         IN  IF valid_indices = {} THEN {NULL} ELSE valid_indices

PickInit ==
    \E a \in PickArgs :
        \/ a.used_questions = NoUsed /\ CallInit("random_call", a)
        \/ CallInit("unused_call", a)

\* the call of question_bank_get_random
RandomCall ==
    /\ pc = "random_call"
    /\ rv' \in question_bank_get_random(arg.bank, arg.difficulty, arg.malloc_ok)
    /\ pc' = "random_done"
    /\ UNCHANGED <<timerVars, mutex, threadVars, stack, arg, ioVars, askVars,
                   gameVars, access, calls, hist>>

\* the call of question_bank_get_random_unused
UnusedCall ==
    /\ pc = "unused_call"
    /\ rv' \in question_bank_get_random_unused(arg.bank, arg.difficulty,
                                               arg.used_questions, arg.malloc_ok)
    /\ pc' = "unused_done"
    /\ UNCHANGED <<timerVars, mutex, threadVars, stack, arg, ioVars, askVars,
                   gameVars, access, calls, hist>>

PickNext == RandomCall \/ UnusedCall

PickSpec == PickInit /\ [][PickNext]_vars

\* the places of the questions of tier d
OfTier(bank, d) == {k \in 1..Len(bank) : bank[k].difficulty = d}

\* C25: question_bank_get_random(bank, d) with a valid tier d returns a
\* question of difficulty d, and NULL exactly when the bank has no question
\* of tier d; with d = -1 it returns some question of the bank, and NULL
\* exactly when the bank is empty.
C25_RandomByTier ==
    pc = "random_done" =>
        /\ arg.difficulty \in Tiers =>
             /\ rv = NULL <=> OfTier(arg.bank, arg.difficulty) = {}
             /\ rv # NULL => rv \in OfTier(arg.bank, arg.difficulty)
        /\ arg.difficulty = -1 =>
             /\ rv = NULL <=> Len(arg.bank) = 0
             /\ rv # NULL => rv \in 1..Len(arg.bank)

\* C25, amended: as C25, but with a valid tier NULL is returned exactly when
\* the bank has no question of tier d or the array of indices cannot be
\* allocated.
C25_RandomByTierOrNoMemory ==
    pc = "random_done" =>
        /\ arg.difficulty \in Tiers =>
             /\ rv = NULL <=> (OfTier(arg.bank, arg.difficulty) = {} \/ ~arg.malloc_ok)
             /\ rv # NULL => rv \in OfTier(arg.bank, arg.difficulty)
        /\ arg.difficulty = -1 =>
             /\ rv = NULL <=> Len(arg.bank) = 0
             /\ rv # NULL => rv \in 1..Len(arg.bank)

\* C25 witness: asked for a Hard question, a bank with an Easy, a Medium and
\* a Hard question has returned the Hard one
C25_Witness ==
    /\ pc = "random_done"
    /\ arg.difficulty = DIFFICULTY_HARD
    /\ Len(arg.bank) = 3
    /\ arg.bank[1].difficulty = DIFFICULTY_EASY
    /\ arg.bank[2].difficulty = DIFFICULTY_MEDIUM
    /\ arg.bank[3].difficulty = DIFFICULTY_HARD
    /\ rv = 3

\* the question at place k is marked used in the exclusion set of the call
Marked(k) ==
    /\ arg.used_questions.given
    /\ k <= Len(arg.used_questions.flags)
    /\ arg.used_questions.flags[k]

\* the places of the questions that match the filter of the call
Matching ==
    IF arg.difficulty \in Tiers THEN OfTier(arg.bank, arg.difficulty)
    ELSE 1..Len(arg.bank)

\* C26: question_bank_get_random_unused never returns a question marked
\* used in the exclusion set it is given, returns only questions matching
\* the difficulty filter, and returns NULL exactly when every question
\* matching the filter is marked used.
C26_UnusedOnly ==
    pc = "unused_done" =>
        /\ rv # NULL => rv \in Matching /\ ~Marked(rv)
        /\ rv = NULL <=> \A k \in Matching : Marked(k)

\* C26, amended: as C26, but NULL is returned exactly when every question
\* matching the filter is marked used or the array of indices cannot be
\* allocated.
C26_UnusedOnlyOrNoMemory ==
    pc = "unused_done" =>
        /\ rv # NULL => rv \in Matching /\ ~Marked(rv)
        /\ rv = NULL <=> ((\A k \in Matching : Marked(k)) \/ ~arg.malloc_ok)

\* C26 witness: of two Hard questions and an Easy one, the first Hard
\* question is marked used; asked for a Hard question the call has returned
\* the second
C26_Witness ==
    /\ pc = "unused_done"
    /\ arg.difficulty = DIFFICULTY_HARD
    /\ Len(arg.bank) = 3
    /\ arg.bank[1].difficulty = DIFFICULTY_HARD
    /\ arg.bank[2].difficulty = DIFFICULTY_HARD
    /\ arg.bank[3].difficulty = DIFFICULTY_EASY
    /\ arg.used_questions = [given |-> TRUE, flags |-> <<TRUE>>]
    /\ rv = 2

(***************************************************************************)
(* questions.c : the question bank.  A bank is [questions, count,          *)
(* capacity, heap]: questions is the array the bank points to, one slot    *)
(* per allocated Question (NoQuestion where nothing was stored yet, no     *)
(* slot at all for a NULL pointer or a block of size 0); heap tells        *)
(* whether a store went past the end of the array.  A Question is          *)
(* [question, options, correct_answer, difficulty, category]; options has  *)
(* MAX_OPTIONS slots.                                                      *)
(***************************************************************************)
INITIAL_CAPACITY == 10
MAX_QUESTION_LEN == 512
MAX_ANSWER_LEN   == 256
LINE_SIZE        == 1024
BUFFER_SIZE      == 8192

\* a Question nothing was stored in: its texts are not initialised (its
\* numbers are not either; no code reads them)
NoQuestion ==
    [question |-> Uninit, options |-> [k \in 1..MAX_OPTIONS |-> Uninit],
     correct_answer |-> 0, difficulty |-> 0, category |-> "?"]

\* lines 98-113: the bank after a successful question_bank_init
question_bank_init ==
    [questions |-> [k \in 1..INITIAL_CAPACITY |-> NoQuestion], count |-> 0,
     capacity |-> INITIAL_CAPACITY, heap |-> "ok"]

\* line 132-133: bank->questions[bank->count] = *question; bank->count++.
\* A store past the end of the array is undefined: it overwrites what lies
\* behind the array, or the process is stopped (fault)
StoreQuestion(bank, q) ==
    IF bank.count < Len(bank.questions)
    THEN { [ret |-> 0, fault |-> FALSE,
            bank |-> [bank EXCEPT !.questions[bank.count + 1] = q,
                                  !.count = @ + 1]] }
    ELSE { [ret |-> 0, fault |-> FALSE,
            bank |-> [bank EXCEPT !.count = @ + 1, !.heap = "overrun"]],
           [ret |-> 0, fault |-> TRUE, bank |-> bank] }

\* lines 115-136: the outcomes of question_bank_add, [ret, fault, bank]; realloc
\* may fail, and a successful realloc keeps the old contents
question_bank_add(bank, q) ==
    IF bank.count >= bank.capacity
    THEN LET new_capacity == bank.capacity * 2
             grown == [bank EXCEPT
                         !.questions = bank.questions \o
                             [k \in 1..(new_capacity - Len(bank.questions)) |-> NoQuestion],
                         !.capacity = new_capacity]
         IN  { [ret |-> -1, fault |-> FALSE, bank |-> bank] }
                 \cup StoreQuestion(grown, q)
    ELSE StoreQuestion(bank, q)

(***************************************************************************)
(* questions.c : parse_json_question, lines 11-96.  A text is a sequence   *)
(* of characters, a char pointer is a position in it, NULL is 0.           *)
(***************************************************************************)
Least(S) == CHOOSE x \in S : \A y \in S : x <= y

\* the first at most n characters of s (strncpy into a buffer of n + 1)
Take(s, n) == IF Len(s) <= n THEN s ELSE SubSeq(s, 1, n)

\* the text from position p on
From(line, p) == SubSeq(line, p, Len(line))

\* strchr(line + from - 1, c)
strchr(line, from, c) ==
    LET hits == {k \in from..Len(line) : line[k] = c}
    IN  IF hits = {} THEN NULL ELSE Least(hits)

\* strstr(line, pat)
strstr(line, pat) ==
    LET hits == {k \in 1..(Len(line) - Len(pat) + 1) :
                    SubSeq(line, k, k + Len(pat) - 1) = pat}
    IN  IF hits = {} THEN NULL ELSE Least(hits)

\* strncmp(line + p - 1, pat, strlen(pat)) == 0
StartsWith(line, p, pat) ==
    /\ p + Len(pat) - 1 <= Len(line)
    /\ SubSeq(line, p, p + Len(pat) - 1) = pat

\* atoi(str)
atoi(str) == strtol(str).num

Quote == "\""

Quoted(s) == <<Quote>> \o s \o <<Quote>>

KeyQuestion   == Quoted(<<"q", "u", "e", "s", "t", "i", "o", "n">>)
KeyOptions    == Quoted(<<"o", "p", "t", "i", "o", "n", "s">>)
KeyCorrect    == Quoted(<<"c", "o", "r", "r", "e", "c", "t">>)
KeyDifficulty == Quoted(<<"d", "i", "f", "f", "i", "c", "u", "l", "t", "y">>)
WordEasy      == <<"e", "a", "s", "y">>
WordMedium    == <<"m", "e", "d", "i", "u", "m">>
WordHard      == <<"h", "a", "r", "d">>

\* lines 20-32: the question text, when its key, colon and quotes are found
ParseQuestionText(line) ==
    LET k == strstr(line, KeyQuestion)
        c == IF k = NULL THEN NULL ELSE strchr(line, k, ":")
        b == IF c = NULL THEN NULL ELSE strchr(line, c, Quote)
        e == IF b = NULL THEN NULL ELSE strchr(line, b + 1, Quote)
    IN  IF e = NULL THEN [found |-> FALSE, text |-> <<>>]
        ELSE [found |-> TRUE,
              text  |-> Take(SubSeq(line, b + 1, e - 1), MAX_QUESTION_LEN - 1)]

\* lines 41-54: the loop over the options from opt_start on; options holds
\* the opt_idx strings copied so far
RECURSIVE ParseOptions(_, _, _)
ParseOptions(line, opt_start, options) ==
    IF Len(options) >= MAX_OPTIONS THEN options
    ELSE LET opt_begin == strchr(line, opt_start, Quote)
             opt_end   == IF opt_begin = NULL THEN NULL
                          ELSE strchr(line, opt_begin + 1, Quote)
         IN  IF opt_end = NULL THEN options
             ELSE LET copied == Append(options,
                                    Take(SubSeq(line, opt_begin + 1, opt_end - 1),
                                         MAX_ANSWER_LEN - 1))
                  IN  IF opt_end + 1 <= Len(line) /\ line[opt_end + 1] = "]"
                      THEN copied
                      ELSE ParseOptions(line, opt_end + 1, copied)

\* lines 67-91
ParseDifficulty(line) ==
    LET k == strstr(line, KeyDifficulty)
        c == IF k = NULL THEN NULL ELSE strchr(line, k, ":")
        b == IF c = NULL THEN NULL ELSE strchr(line, c, Quote)
    IN  IF b = NULL THEN DIFFICULTY_EASY
        ELSE IF StartsWith(line, b + 1, WordEasy) THEN DIFFICULTY_EASY
        ELSE IF StartsWith(line, b + 1, WordMedium) THEN DIFFICULTY_MEDIUM
        ELSE IF StartsWith(line, b + 1, WordHard) THEN DIFFICULTY_HARD
        ELSE DIFFICULTY_EASY

\* line 63
CorrectInRange(correct_answer, opt_idx) ==
    correct_answer >= 0 /\ correct_answer < opt_idx

\* lines 11-96: [ret, q]; q is written into an uninitialised Question, the
\* option slots from opt_idx on keep what they held
parse_json_question(json_line) ==
    LET line      == Take(json_line, LINE_SIZE - 1)
        text      == ParseQuestionText(line)
        opt_key   == strstr(line, KeyOptions)
        opt_open  == IF opt_key = NULL THEN NULL ELSE strchr(line, opt_key, "[")
        options   == IF opt_open = NULL THEN <<>>
                     ELSE ParseOptions(line, opt_open + 1, <<>>)
        opt_idx   == Len(options)
        corr_key  == strstr(line, KeyCorrect)
        corr_col  == IF corr_key = NULL THEN NULL ELSE strchr(line, corr_key, ":")
        correct_answer == IF corr_col = NULL THEN 0
                          ELSE atoi(From(line, corr_col + 1))
        failed    == [ret |-> -1, q |-> NoQuestion]
    IN  IF ~text.found \/ opt_open = NULL \/ corr_col = NULL THEN failed
        ELSE IF ~CorrectInRange(correct_answer, opt_idx) THEN failed
        ELSE [ret |-> 0,
              q   |-> [question |-> text.text,
                       options  |-> [k \in 1..MAX_OPTIONS |->
                                       IF k <= opt_idx THEN options[k] ELSE Uninit],
                       correct_answer |-> correct_answer,
                       difficulty |-> ParseDifficulty(line),
                       category |-> "GENERAL"]]

(***************************************************************************)
(* questions.c : question_bank_load_from_json, lines 138-196, called on    *)
(* its own.  The file is a JSON array of records; a record has a question  *)
(* text, n options, the index given as correct and a difficulty, and is    *)
(* written either without white space or with a blank after every bracket  *)
(* and comma of its list of options.  arg holds what the call works on:    *)
(* the bank, the records the file was written from, the text of the file   *)
(* still to be read, and the locals buffer, in_object, brace_count and     *)
(* loaded.                                                                 *)
(***************************************************************************)
MaxRecords == 2

OptionTexts   == << <<"a">>, <<"b">>, <<"c">>, <<"d">>, <<"e">> >>
QuestionTexts == << <<"A">>, <<"B">>, <<"C">> >>

DigitChar(n) == <<"0", "1", "2", "3", "4", "5", "6", "7", "8", "9">>[n + 1]

RecordKinds == [n : {1, 2, 4}, correct : {0, 2}, spaced : BOOLEAN]

\* "a","b", ... for the first n options
RECURSIVE RenderOptions(_, _, _)
RenderOptions(k, n, spaced) ==
    IF k > n THEN <<>>
    ELSE Quoted(OptionTexts[k])
           \o (IF k < n THEN <<",">> ELSE <<>>)
           \o (IF spaced THEN <<" ">> ELSE <<>>)
           \o RenderOptions(k + 1, n, spaced)

\* the text of the record r with the question text name
RenderRecord(r, name) ==
    <<"{">> \o KeyQuestion \o <<":">> \o Quoted(name) \o <<",">>
      \o KeyOptions \o <<":", "[">> \o (IF r.spaced THEN <<" ">> ELSE <<>>)
      \o RenderOptions(1, r.n, r.spaced) \o <<"]", ",">>
      \o KeyCorrect \o <<":">> \o <<DigitChar(r.correct)>> \o <<",">>
      \o KeyDifficulty \o <<":">> \o Quoted(WordHard) \o <<"}">>

RECURSIVE RenderRecords(_, _)
RenderRecords(records, k) ==
    IF k > Len(records) THEN <<>>
    ELSE RenderRecord(records[k], QuestionTexts[k])
           \o (IF k < Len(records) THEN <<",">> ELSE <<>>)
           \o RenderRecords(records, k + 1)

RenderFile(records) == <<"[">> \o RenderRecords(records, 1) \o <<"]">>

\* a question stored by an earlier load
StoredQuestion ==
    [question |-> <<"Z">>, options |-> [k \in 1..MAX_OPTIONS |-> OptionTexts[k]],
     correct_answer |-> 0, difficulty |-> DIFFICULTY_EASY, category |-> "GENERAL"]

\* the banks a load starts from: just initialised, or filled to capacity
LoadBanks ==
    { question_bank_init,
      [question_bank_init EXCEPT
          !.questions = [k \in 1..INITIAL_CAPACITY |-> StoredQuestion],
          !.count = INITIAL_CAPACITY] }

LoadArgs ==
    { [bank |-> b, before |-> b.count, records |-> rs, file |-> RenderFile(rs),
       buffer |-> <<>>, in_object |-> FALSE, brace_count |-> 0, loaded |-> 0] :
        b \in LoadBanks,
        rs \in UNION { [1..n -> RecordKinds] : n \in 1..MaxRecords } }

LoadInit == \E a \in LoadArgs : CallInit("load_open", a)

\* lines 143-147: fopen; the file may be missing
LoadOpen ==
    /\ pc = "load_open"
    /\ \/ /\ pc' = "load_char"
          /\ UNCHANGED rv
       \/ /\ rv' = -1
          /\ pc' = "load_done"
    /\ UNCHANGED <<timerVars, mutex, threadVars, stack, arg, ioVars, askVars,
                   gameVars, access, calls, hist>>

\* lines 177-187: the closing brace of a record: parse_json_question,
\* question_bank_add, loaded++; the locals are reset
LoadRecord(a, text) ==
    LET p == parse_json_question(text)
        reset == [a EXCEPT !.file = Tail(a.file), !.buffer = <<>>,
                           !.in_object = FALSE, !.brace_count = 0]
    IN  IF p.ret # 0 THEN { [fault |-> FALSE, frame |-> reset] }
        ELSE { [fault |-> o.fault,
                frame |-> [reset EXCEPT !.bank = o.bank,
                                        !.loaded = IF o.ret = 0 THEN @ + 1 ELSE @]] :
                 o \in question_bank_add(a.bank, p.q) }

\* lines 156-192: one turn of the loop, for the character c = fgetc(file)
LoadChar ==
    /\ pc = "load_char"
    /\ arg.file # <<>>
    /\ LET c    == Head(arg.file)
           next == [arg EXCEPT !.file = Tail(arg.file)]
           text == Append(arg.buffer, c)
       IN  IF Len(arg.buffer) >= BUFFER_SIZE - 1
           THEN /\ arg' = [next EXCEPT !.buffer = <<>>, !.brace_count = 0,
                                       !.in_object = FALSE]
                /\ pc' = pc
           ELSE IF c = "{"
           THEN /\ arg' = IF ~arg.in_object
                          THEN [next EXCEPT !.buffer = <<"{">>, !.in_object = TRUE,
                                            !.brace_count = 1]
                          ELSE [next EXCEPT !.buffer = text, !.brace_count = @ + 1]
                /\ pc' = pc
           ELSE IF c = "}"
           THEN IF arg.in_object /\ arg.brace_count - 1 = 0
                THEN \E o \in LoadRecord(arg, text) :
                        /\ arg' = o.frame
                        /\ pc' = IF o.fault THEN "crashed" ELSE pc
                ELSE /\ arg' = [next EXCEPT !.buffer = text, !.brace_count = @ - 1]
                     /\ pc' = pc
           ELSE /\ arg' = [next EXCEPT !.buffer = text]
                /\ pc' = pc
    /\ UNCHANGED <<timerVars, mutex, threadVars, stack, rv, ioVars, askVars,
                   gameVars, access, calls, hist>>

\* lines 156, 194-195: end of file; return loaded
LoadEof ==
    /\ pc = "load_char"
    /\ arg.file = <<>>
    /\ rv' = arg.loaded
    /\ pc' = "load_done"
    /\ UNCHANGED <<timerVars, mutex, threadVars, stack, arg, ioVars, askVars,
                   gameVars, access, calls, hist>>

LoadNext == LoadOpen \/ LoadChar \/ LoadEof

LoadSpec == LoadInit /\ [][LoadNext]_vars

\* the questions the load in arg has added to the bank
Added == {arg.bank.questions[k] : k \in (arg.before + 1)..arg.bank.count}

\* the index given as correct in the record r is one of its options
CorrectIsOption(r) == r.correct >= 0 /\ r.correct < r.n

\* C27: a record whose correct index is outside [0, number of its options)
\* is not added to the bank; loading goes on with the records after it (a
\* record with a correct index among its options is added when the bank has
\* room); the count returned is the number of questions added.
C27_BadCorrectSkipped ==
    (pc = "load_done" /\ rv # -1) =>
        /\ \A k \in 1..Len(arg.records) :
              ~CorrectIsOption(arg.records[k]) =>
                 \A q \in Added : q.question # QuestionTexts[k]
        /\ \A k \in 1..Len(arg.records) :
              (/\ CorrectIsOption(arg.records[k])
               /\ arg.before + Len(arg.records) <= INITIAL_CAPACITY) =>
                 \E q \in Added : q.question = QuestionTexts[k]
        /\ rv = arg.bank.count - arg.before

\* the number of options of a stored question: the option texts the parser
\* has written
NumOptions(q) == Cardinality({k \in 1..MAX_OPTIONS : q.options[k] # Uninit})

\* C28: after question_bank_load_from_json every question in the bank has
\* between 2 and 4 options and 0 <= correct_answer < number of options.
C28_LoadedWellFormed ==
    (pc = "load_done" /\ rv # -1) =>
        \A k \in 1..arg.bank.count :
            LET q == arg.bank.questions[k]
            IN  /\ NumOptions(q) >= 2
                /\ NumOptions(q) <= MAX_OPTIONS
                /\ q.correct_answer >= 0
                /\ q.correct_answer < NumOptions(q)

\* the sum of the scores of the players 0..k
RECURSIVE ScoreSum(_)
ScoreSum(k) == IF k < 0 THEN 0 ELSE players[k].score + ScoreSum(k - 1)

\* what a session can report as its final score: the score of the single
\* player; with several players the highest score or the sum of the scores
FinalScores ==
    IF config.num_players > 1
    THEN { ScoreSum(config.num_players - 1) } \cup
         { players[p].score : p \in {w \in DOMAIN players :
                                        \A o \in DOMAIN players :
                                            players[o].score <= players[w].score} }
    ELSE { stats.score }

\* C29: game_run, called with a state and a bank, returns the final score of
\* the session, with one player and with several.
C29_ReturnsFinalScore ==
    pc = "game_cleanup" => rv \in FinalScores

(***************************************************************************)
(* questions.c : a caller of question_bank_init, question_bank_add and     *)
(* question_bank_free, in any order, on one bank.  arg holds the bank; rv  *)
(* tells the last call made, the question it was given and what it         *)
(* returned.                                                               *)
(***************************************************************************)
\* the caller stops adding at MaxStored questions, one more than the capacity
\* of a new bank
MaxStored == 11

OtherQuestion ==
    [question |-> <<"Y">>, options |-> [k \in 1..MAX_OPTIONS |-> OptionTexts[k]],
     correct_answer |-> 3, difficulty |-> DIFFICULTY_HARD, category |-> "GENERAL"]

AddQuestions == {StoredQuestion, OtherQuestion}

\* the caller has initialised the bank
BankInit == CallInit("bank_client", [bank |-> question_bank_init])

\* question_bank_add(&bank, &q), lines 115-136
BankAdd ==
    /\ pc = "bank_client"
    /\ arg.bank.count < MaxStored
    /\ \E q \in AddQuestions :
        \E o \in question_bank_add(arg.bank, q) :
          /\ arg' = [arg EXCEPT !.bank = o.bank]
          /\ rv' = [call |-> IF o.fault THEN "fault" ELSE "add", ret |-> o.ret,
                    question |-> q]
          /\ pc' = IF o.fault THEN "crashed" ELSE pc
    /\ UNCHANGED <<timerVars, mutex, threadVars, stack, ioVars, askVars,
                   gameVars, access, calls, hist>>

\* question_bank_free(&bank), lines 198-205
BankFree ==
    /\ pc = "bank_client"
    /\ arg' = [arg EXCEPT !.bank = [@ EXCEPT !.questions = <<>>, !.count = 0,
                                             !.capacity = 0]]
    /\ rv' = [call |-> "free", ret |-> 0, question |-> NoQuestion]
    /\ UNCHANGED <<timerVars, mutex, threadVars, pc, stack, ioVars, askVars,
                   gameVars, access, calls, hist>>

\* question_bank_init(&bank) on a bank that was freed, lines 98-113; the
\* caller gives up when it fails
BankAgain ==
    /\ pc = "bank_client"
    /\ arg.bank.questions = <<>>
    /\ \/ /\ arg' = [arg EXCEPT !.bank = [question_bank_init EXCEPT
                                            !.heap = arg.bank.heap]]
          /\ rv' = [call |-> "init", ret |-> 0, question |-> NoQuestion]
          /\ pc' = pc
       \/ /\ arg' = [arg EXCEPT !.bank = [@ EXCEPT !.count = 0,
                                                   !.capacity = INITIAL_CAPACITY]]
          /\ rv' = [call |-> "init", ret |-> -1, question |-> NoQuestion]
          /\ pc' = "bank_failed"
    /\ UNCHANGED <<timerVars, mutex, threadVars, stack, ioVars, askVars,
                   gameVars, access, calls, hist>>

BankNext == BankAdd \/ BankFree \/ BankAgain

BankSpec == BankInit /\ [][BankNext]_vars

\* C30: a question_bank_add that returns 0 increases count by exactly 1,
\* stores a copy of the question it was given at index count - 1 and leaves
\* the questions stored before unchanged, also when the capacity is doubled;
\* a question_bank_add that returns -1 (realloc failed) leaves count,
\* capacity and the questions unchanged.
C30_AddFrame ==
    [][rv'.call = "add" =>
         /\ rv'.ret = 0 =>
              /\ arg'.bank.count = arg.bank.count + 1
              /\ arg'.bank.count <= Len(arg'.bank.questions)
              /\ arg'.bank.questions[arg'.bank.count] = rv'.question
              /\ \A k \in 1..arg.bank.count :
                    arg'.bank.questions[k] = arg.bank.questions[k]
              /\ arg'.bank.heap = arg.bank.heap
         /\ rv'.ret = -1 => arg'.bank = arg.bank]_vars


(***************************************************************************)
(* is_valid_integer as a function of its own: a caller passes any short    *)
(* text, or one of a few longer ones, and an int that already holds a      *)
(* value.  Texts beyond INT_MAX are left out: their value is not an        *)
(* integer TLC can hold.                                                   *)
(***************************************************************************)
MaxText == 3   \* longest text drawn from TextChars

TextChars == {"1", "2", "0", "-", "+", " ", ".", "a"}

RangeTexts ==
    { <<"2","1","4","7","4","8","3","6","4","7">>,
      <<"-","2","1","4","7","4","8","3","6","4","7">>,
      <<"1","2",".","3","4">> }

OldValues == {0, 7}

ValidInit ==
    \E str \in RangeTexts \cup UNION { [1..n -> TextChars] : n \in 0..MaxText } :
        \E old \in OldValues :
            CallInit("valid_call", [str |-> str, value |-> old])

\* is_valid_integer(str, &value), utils.c lines 54-71: *value is written
\* on the accepting path only
ValidCall ==
    /\ pc = "valid_call"
    /\ LET v == is_valid_integer(arg.str)
       IN  rv' = [ret   |-> IF v.ok THEN 1 ELSE 0,
                  value |-> IF v.ok THEN v.value ELSE arg.value]
    /\ pc' = "valid_done"
    /\ UNCHANGED <<timerVars, mutex, threadVars, stack, arg, ioVars, askVars,
                   gameVars, access, calls, hist>>

\* the caller asks again about the same text with the value it now holds
ValidAgain ==
    /\ pc = "valid_done"
    /\ arg' = [arg EXCEPT !.value = rv.value]
    /\ pc' = "valid_call"
    /\ UNCHANGED <<timerVars, mutex, threadVars, stack, rv, ioVars, askVars,
                   gameVars, access, calls, hist>>

ValidNext == ValidCall \/ ValidAgain

ValidSpec == ValidInit /\ [][ValidNext]_vars

\* a text that is, from its first character to its last, an optional sign
\* and one or more decimal digits
DecimalText(s) ==
    LET body == IF s # <<>> /\ Head(s) \in {"-", "+"} THEN Tail(s) ELSE s
    IN  body # <<>> /\ \A k \in 1..Len(body) : isdigit(body[k])

DecimalValue(s) ==
    IF Head(s) = "-" THEN -DigitsValue(Tail(s), 0)
    ELSE IF Head(s) = "+" THEN DigitsValue(Tail(s), 0)
    ELSE DigitsValue(s, 0)

\* C31: is_valid_integer returns 1 only if the whole string is a decimal
\* integer within int range (not empty, nothing after the digits) and then
\* stores exactly that value; otherwise it returns 0 and leaves *value
\* unchanged.
C31_WholeStringInteger ==
    pc = "valid_done" =>
        IF rv.ret = 1
        THEN /\ DecimalText(arg.str)
             /\ DecimalValue(arg.str) \in INT_MIN..INT_MAX
             /\ rv.value = DecimalValue(arg.str)
        ELSE rv.value = arg.value


(***************************************************************************)
(* The timed round under fair scheduling.  sleep(1) in the countdown and   *)
(* the 0.1 s select of the polling loop leave the mutex free for most of   *)
(* the time, so a thread that can take a step again and again takes one.   *)
(***************************************************************************)
\* the main thread is not waiting for the mutex, for a thread to end or for
\* a line: its next statement can be executed
MainReady ==
    CASE pc \in LockLabels                 -> mutex = NoOwner
      [] pc = "stop_join"                  -> /\ thread \in Threads
                                              /\ thread \notin joined
                                              /\ tpc[thread] = "t_done"
      [] pc \in {"run_wait0", "run_wait"}  -> HasLine
      [] pc = "ask_read"                   -> HasLine \/ eof
      [] pc = "start_create"               -> nthreads < MaxThreads
      [] pc \in {"finished", "crashed"}    -> FALSE
      [] OTHER                             -> TRUE

\* a statement of the main thread has been executed
MainMoves == pc' # pc \/ stack' # stack

FairRoundSpec ==
    /\ RoundInit
    /\ [][RoundNext]_vars
    /\ SF_vars(ThreadStep)
    /\ (<>[](~MainReady) \/ []<><<MainMoves>>_vars)

C33_StopFreezesRemaining ==
    [][(pc = "stop_join" /\ hist.stopAt > 0) => remaining' = hist.stopAt]_vars


(***************************************************************************)
(* game.c : game_init, lines 15-49, as main calls it (main.c lines         *)
(* 213-227), for any configuration and with allocations that may fail.     *)
(* players is the array state->players points to, <<>> when none is        *)
(* allocated.                                                              *)
(***************************************************************************)
InitConfigs ==
    [use_timer : BOOLEAN, time_per_question : {0, MaxSeconds},
     questions_per_game : {1}, num_players : 1..MaxListed, difficulty : {-1}]

GameInitInit ==
    \E c \in InitConfigs : \E m \in BOOLEAN, x \in BOOLEAN :
        CallInit("init_call", [config |-> c, malloc_ok |-> m, mutex_ok |-> x])

\* game_init lines 20-31: config copied, players = NULL, stats cleared
GameInitEnter ==
    /\ pc = "init_call"
    /\ config' = arg.config
    /\ game_active' = FALSE
    /\ current_player' = 0
    /\ players' = <<>>
    /\ stats' = NoStats
    /\ pc' = "init_players"
    /\ UNCHANGED <<timerVars, mutex, threadVars, stack, arg, rv, ioVars, askVars,
                   question, i, access, calls, hist>>

\* game_init lines 33-38 with game_init_players, lines 51-72
GameInitPlayers ==
    /\ pc = "init_players"
    /\ IF config.num_players > 1
       THEN IF arg.malloc_ok
            THEN /\ players' = [p \in 0..(config.num_players - 1) |-> NoPlayer]
                 /\ pc' = "init_timer"
                 /\ UNCHANGED rv
            ELSE /\ rv' = -1
                 /\ pc' = "init_failed"
                 /\ UNCHANGED players
       ELSE /\ pc' = "init_timer"
            /\ UNCHANGED <<players, rv>>
    /\ UNCHANGED <<timerVars, mutex, threadVars, stack, arg, ioVars, askVars,
                   config, question, i, stats, current_player, game_active,
                   access, calls, hist>>

\* game_init lines 40-48 with timer_init, timer.c lines 55-74
GameInitTimer ==
    /\ pc = "init_timer"
    /\ IF ~config.use_timer
       THEN /\ rv' = 0
            /\ pc' = "init_done"
            /\ UNCHANGED timerVars
       ELSE IF config.time_per_question <= 0
       THEN /\ rv' = -1
            /\ pc' = "init_failed"
            /\ UNCHANGED timerVars
       ELSE /\ seconds' = config.time_per_question
            /\ remaining' = config.time_per_question
            /\ running' = FALSE
            /\ expired' = FALSE
            /\ rv' = IF arg.mutex_ok THEN 0 ELSE -1
            /\ pc' = IF arg.mutex_ok THEN "init_done" ELSE "init_failed"
    /\ UNCHANGED <<mutex, threadVars, stack, arg, ioVars, askVars, gameVars,
                   access, calls, hist>>

\* main.c lines 214-218: print_error, wait_for_enter, continue
MainInitFailed ==
    /\ pc = "init_failed"
    /\ pc' = "menu"
    /\ UNCHANGED <<timerVars, mutex, threadVars, stack, arg, rv, ioVars, askVars,
                   gameVars, access, calls, hist>>

\* main.c lines 221-227: the session (game_run) is played, then game_cleanup
MainInitDone ==
    /\ pc = "init_done"
    /\ pc' = "game_cleanup"
    /\ UNCHANGED <<timerVars, mutex, threadVars, stack, arg, rv, ioVars, askVars,
                   gameVars, access, calls, hist>>

GameInitNext ==
    \/ GameInitEnter \/ GameInitPlayers \/ GameInitTimer
    \/ MainInitFailed \/ MainInitDone
    \/ GameCleanup \/ CleanupCheck \/ CleanupDestroy \/ CleanupEnd

GameInitSpec == GameInitInit /\ [][GameInitNext]_vars

\* C38: when game_init has returned -1 and main has gone through its error
\* path, no player array is left allocated, also when timer_init failed
\* after game_init_players had succeeded.
C38_FailedInitFreesPlayers ==
    (pc = "menu" /\ rv = -1) => players = <<>>


\* C40: after any sequence of question_bank_init, question_bank_add and
\* question_bank_free calls, count <= capacity and every index below count
\* lies within the storage allocated for the questions, also for an add made
\* after a free.
C40_CountWithinStorage ==
    /\ arg.bank.count <= arg.bank.capacity
    /\ arg.bank.count <= Len(arg.bank.questions)
    /\ arg.bank.heap = "ok"


(***************************************************************************)
(* A session of several timed rounds in a row, one player, one second per  *)
(* question: game_run calls game_ask_question again and again on the same  *)
(* Timer (timer_reset, timer_start, then timer_stop or expiry).            *)
(***************************************************************************)
MaxSeries == 2   \* timed rounds of the session

SeriesLines == { <<"1">>, <<"2">>, <<"5">> }

\* the state game_init leaves for a single-player session configured as c
SessionInit(c) ==
    /\ config = c
    /\ seconds = config.time_per_question
    /\ remaining = seconds
    /\ running = FALSE
    /\ expired = FALSE
    /\ thread = 0
    /\ mutex = NoOwner
    /\ tpc = [t \in Threads |-> "unborn"]
    /\ nthreads = 0
    /\ joined = {}
    /\ pc = "run_start"
    /\ stack = <<>>
    /\ arg = 0
    /\ rv = 0
    /\ stdin = <<>>
    /\ stdio = <<>>
    /\ eof = FALSE
    /\ input = Uninit
    /\ answer = 0
    /\ result = 0
    /\ question = 0
    /\ i = 0
    /\ stats = NoStats
    /\ players = <<>>
    /\ current_player = 0
    /\ game_active = FALSE
    /\ access = [site |-> "locked", held |-> TRUE]
    /\ calls = 0
    /\ hist = NoHist

SeriesInit ==
    SessionInit([use_timer |-> TRUE, time_per_question |-> 1,
                 questions_per_game |-> MaxSeries, num_players |-> 1,
                 difficulty |-> DIFFICULTY_MEDIUM])

\* the player types a line
TypeSeriesLine ==
    /\ ~eof
    /\ Len(stdin) < MaxPending
    /\ \E l \in SeriesLines :
          /\ stdin' = Append(stdin, l)
          /\ hist' = Typed(l)
    /\ UNCHANGED <<timerVars, mutex, threadVars, mainVars, stdio, eof, askVars,
                   gameVars, access, calls>>

SeriesNext ==
    \/ RunStart \/ RunWaitFirst \/ RunLoop \/ RunCheck \/ RunScore \/ RunWait
    \/ RunEnd \/ GameCleanup \/ CleanupEnd
    \/ Ask \/ AskStart \/ PollHead \/ PollRem \/ PollExp \/ PollSelect
    \/ PollRead \/ PollDisp
    \/ TimerCallStep
    \/ CleanupCheck \/ CleanupDestroy
    \/ ThreadStep
    \/ TypeSeriesLine \/ CloseInput

SeriesSpec == SeriesInit /\ [][SeriesNext]_vars

\* C34: across the successive timed rounds of a session at most one
\* countdown thread is alive at any time.
C34_OneCountdownAlive == Cardinality(LiveThreads) <= 1

\* C34 witness: the second round's countdown is alive after the first round
\* ended by expiry without a timer_stop
C34_Witness ==
    /\ i = 1
    /\ nthreads = 2
    /\ tpc[2] = "t_tick"
    /\ tpc[1] = "t_done"
    /\ 1 \notin joined


\* C35: a timed round returns TimedOut (0) only in a state where remaining
\* is 0, never while remaining > 0.
C35_TimedOutAtZero ==
    (TimedRoundReturned /\ result = 0) => remaining = 0

\* C35 witness: the second round of a session returns TimedOut after the
\* loop saw the expired flag and timer_stop joined the countdown
C35_Witness ==
    /\ TimedRoundReturned
    /\ result = 0
    /\ i = 1
    /\ remaining = 0
    /\ expired
    /\ thread \in joined


\* C36: in a timed round a read that fails (end of input: fgets returns
\* NULL) is no input for that poll: it does not end the round and changes no
\* score, counter or timer field, the loop goes on to its next test; a round
\* ends with a choice or a quit only when such a line has been read.
C36_FailedReadIsNoInput ==
    /\ [][(pc = "poll_read" /\ ~HasLine /\ pc' # pc) =>
            /\ pc' = "poll_disp"
            /\ UNCHANGED <<stack, result, answer, stats, players, current_player,
                           i, seconds, remaining, running, expired, threadVars>>]_vars
    /\ []((TimedRoundReturned /\ result # 0) => (IsQuit(input) \/ IsChoice(input)))

\* C36 witness: in the second round the loop is at read_input with time left
\* and the input at its end
C36_Witness ==
    /\ pc = "poll_read"
    /\ i = 1
    /\ eof
    /\ ~HasLine
    /\ remaining > 0
    /\ stats.total_questions = 1


\* C39: in single-player mode total_questions equals correct_answers +
\* wrong_answers + timeouts in every state, it is the number of rounds played
\* once a round has been booked, and it never exceeds questions_per_game.
C39_CountersAddUp ==
    config.num_players = 1 =>
        /\ stats.total_questions =
              stats.correct_answers + stats.wrong_answers + stats.timeouts
        /\ stats.total_questions <= config.questions_per_game
        /\ pc = "run_wait" => stats.total_questions = i + 1

\* C39 witness: three rounds booked, one of each kind
C39_Witness ==
    /\ config.num_players = 1
    /\ pc = "run_wait"
    /\ stats.total_questions = 3
    /\ stats.correct_answers = 1
    /\ stats.wrong_answers = 1
    /\ stats.timeouts = 1


(***************************************************************************)
(* Single-player sessions without the timer, where the time_remaining of   *)
(* every round is config.time_per_question (game.c lines 277-279): none or *)
(* MaxSeconds, with questions of the Easy tier only or of any tier.        *)
(***************************************************************************)
MaxTally == 3   \* questions_per_game

TallyInit ==
    \E t \in {0, MaxSeconds}, n \in 1..MaxTally, d \in {DIFFICULTY_EASY, -1} :
        SessionInit([use_timer |-> FALSE, time_per_question |-> t,
                     questions_per_game |-> n, num_players |-> 1,
                     difficulty |-> d])

TallyNext ==
    \/ RunStart \/ RunWaitFirst \/ RunLoop \/ RunCheck \/ RunScore \/ RunWait
    \/ RunEnd \/ GameCleanup \/ CleanupEnd
    \/ Ask \/ AskRead
    \/ TypeSeriesLine \/ CloseInput

TallySpec == TallyInit /\ [][TallyNext]_vars

\* C37: in a single-player session the score starts at 0 and changes only
\* when a round is booked as correct, by base(difficulty of the question) +
\* floor(time_remaining / 2), so that the final score is the sum of these
\* amounts over the correctly answered rounds; a session of 3 Easy questions
\* all answered correctly with 0 seconds remaining ends with score 30,
\* correct_answers = total_questions = 3 and timeouts = 0.
C37_ScoreIsSumOfRounds ==
    /\ [](pc = "run_start" => stats.score = 0)
    /\ [][IF pc = "run_score" /\ pc' # pc /\ result = Bank[question].correct_answer + 1
          THEN stats'.score = stats.score + BasePoints(Bank[question].difficulty)
                                          + (rv \div 2)
          ELSE stats'.score = stats.score]_vars
    /\ []((/\ pc = "finished"
           /\ config.questions_per_game = 3
           /\ config.difficulty = DIFFICULTY_EASY
           /\ config.time_per_question = 0
           /\ stats.correct_answers = 3)
            => (/\ stats.score = 30
                /\ stats.total_questions = 3
                /\ stats.timeouts = 0))

\* C37 witness: the session of the scenario has ended
C37_Witness ==
    /\ pc = "finished"
    /\ config.questions_per_game = 3
    /\ config.difficulty = DIFFICULTY_EASY
    /\ config.time_per_question = 0
    /\ stats.correct_answers = 3
    /\ stats.total_questions = 3
    /\ stats.timeouts = 0
    /\ stats.score = 30

==========================================================================
